---- MODULE Spec2Model ----
(***************************************************************************)
(* Model of the data-freshness and cost-control layer of stock-watch:      *)
(* the server-side TTL cache (src/lib/cache.ts, MemoryCache), the daily    *)
(* FMP rate limiter (src/lib/cache.ts, RateLimiter), the per-minute        *)
(* Finnhub rate limiter (src/lib/finnhub.ts, FinnhubRateLimiter) and the   *)
(* gateway operations of both providers (src/lib/market-data.ts,           *)
(* src/lib/finnhub.ts).                                                    *)
(*                                                                         *)
(* Time is Date.now() in milliseconds.  JavaScript runs each piece of code *)
(* between two awaits atomically, so every action below is one such piece. *)
(***************************************************************************)
EXTENDS Integers, Sequences, FiniteSets, TLC

VARIABLES
    now,            \* Date.now(), milliseconds
    cache,          \* MemoryCache.cache : Map<string, CacheEntry>
    fmpRateLimiter, \* RateLimiter.state of the fmpRateLimiter singleton
    rateLimiter,    \* FinnhubRateLimiter.calls of the finnhub singleton
    env,            \* names of the API-key environment variables that are set
    activeProvider, \* the provider the routes dispatch to (getActiveProvider())
    req,            \* one record per request handler: where it is, what it returns
    last,           \* the most recent direct call on a class and what it returned
    lastSet,        \* history: for each key, the instant, ttl and value of its latest set
    window,         \* history: the day of the latest recordCall and the calls recorded in it
    issued,         \* history: upstream fetches issued, per provider, in the current window
    started,        \* history: the number of gateway operations called so far
    analyze,        \* one record per handler of POST /api/analyze: where it is, its locals
    macro,          \* the volatility index of the market, in points
    reasoning,      \* history: the reasoning calls made, with the quote each was given
    apiCosts,       \* the value of apiCostsAtom (the cost ledger)
    rolled,         \* history: the months in which the ledger was rolled over
    watch           \* the handler of POST /api/watchlist/prices: where it is, its locals

vars == <<now, cache, fmpRateLimiter, rateLimiter, env, activeProvider, req, last,
          lastSet, window, issued, started, analyze, macro, reasoning,
      apiCosts, rolled, watch>>

----------------------------------------------------------------------------
(* JavaScript values held in the cache and returned by the operations.      *)

Null == [kind |-> "null"]
Arr(items) == [kind |-> "array", items |-> items]
Bool(b) == [kind |-> "boolean", value |-> b]

\* JavaScript truthiness of the values the cache holds: null is falsy, every
\* array (the empty one too) and every object is truthy.
\* Variant that is wrong on purpose: an empty list taken for a miss.
Truthy_nonempty(v) == v.kind # "null" /\ (v.kind = "array" => Len(v.items) > 0)

\* if (cached): every object and every array, the empty one too, is truthy
Truthy(v) == v.kind # "null"

----------------------------------------------------------------------------
(* MemoryCache (src/lib/cache.ts).  The Map is a function from the keys     *)
(* present to their entries; the insertion order of a Map shows only in the *)
(* order of stats().keys, which is modelled as a set.                       *)

CacheEntry(data, expiresAt) == [data |-> data, expiresAt |-> expiresAt]

EmptyMap == <<>>

MapDelete(m, key) == [k \in DOMAIN m \ {key} |-> m[k]]

MapSet(m, key, entry) == [k \in DOMAIN m \cup {key} |-> IF k = key THEN entry ELSE m[k]]

\* Variant that is wrong on purpose: an expired entry is reported absent but
\* stays in the map.
MemoryCache_get_keep(m, key, t) ==
    IF key \notin DOMAIN m \/ t > m[key].expiresAt
    THEN [ret |-> Null, cache |-> m]
    ELSE [ret |-> m[key].data, cache |-> m]

\* get(key): the returned value and the map afterwards (lazy eviction).
MemoryCache_get(m, key, t) ==
    IF key \notin DOMAIN m
    THEN [ret |-> Null, cache |-> m]
    ELSE IF t > m[key].expiresAt
         THEN [ret |-> Null, cache |-> MapDelete(m, key)]
         ELSE [ret |-> m[key].data, cache |-> m]

\* Variant that is wrong on purpose: an entry never expires earlier than the
\* one it replaces.
MemoryCache_set_extend(m, key, data, ttlMs, t) ==
    MapSet(m, key, CacheEntry(data, IF key \in DOMAIN m /\ m[key].expiresAt > t + ttlMs
                                    THEN m[key].expiresAt
                                    ELSE t + ttlMs))

MemoryCache_set_noclock(m, key, data, ttlMs, t) ==
    MapSet(m, key, CacheEntry(data, ttlMs))

MemoryCache_set(m, key, data, ttlMs, t) ==
    MapSet(m, key, CacheEntry(data, t + ttlMs))

\* has(key) is get(key) !== null, eviction included.
MemoryCache_has(m, key, t) ==
    LET g == MemoryCache_get(m, key, t)
    IN  [ret |-> Bool(g.ret # Null), cache |-> g.cache]

MemoryCache_delete(m, key) == MapDelete(m, key)

MemoryCache_cleanup(m, t) ==
    [k \in {x \in DOMAIN m : ~(t > m[x].expiresAt)} |-> m[k]]

MemoryCache_clear(m) == EmptyMap

MemoryCache_stats(m) == [size |-> Cardinality(DOMAIN m), keys |-> DOMAIN m]

\* CACHE_TTL, milliseconds
CACHE_TTL ==
    [SEARCH |-> 5 * 60 * 1000,
     QUOTE |-> 2 * 60 * 1000,
     FUNDAMENTALS |-> 60 * 60 * 1000,
     HISTORICAL_INTRADAY |-> 15 * 60 * 1000,
     HISTORICAL_DAILY |-> 24 * 60 * 60 * 1000,
     ANALYSIS |-> 6 * 60 * 60 * 1000,
     MARKET_CONTEXT |-> 15 * 60 * 1000]

----------------------------------------------------------------------------
(* RateLimiter (src/lib/cache.ts): the daily limiter.                       *)

DAY_MS == 86400000

\* getCurrentDate(): new Date().toISOString().split('T')[0] is the UTC
\* calendar day of the instant; days are numbered from the epoch.
getCurrentDate(t) == t \div DAY_MS

maxDailyCalls == 250

resetIfNewDay_never(st, t) == st

resetIfNewDay(st, t) ==
    LET today == getCurrentDate(t)
    IN  IF st.date # today
        THEN [dailyCalls |-> 0, date |-> today]
        ELSE st

RateLimiter_canMakeCall_inclusive(st, t) ==
    LET s == resetIfNewDay(st, t)
    IN  [ret |-> s.dailyCalls <= maxDailyCalls, state |-> s]

RateLimiter_canMakeCall(st, t) ==
    LET s == resetIfNewDay(st, t)
    IN  [ret |-> s.dailyCalls < maxDailyCalls, state |-> s]

RateLimiter_recordCall(st, t) ==
    LET s == resetIfNewDay(st, t)
    IN  [s EXCEPT !.dailyCalls = @ + 1]

Max(a, b) == IF a >= b THEN a ELSE b

\* getUsage(); percentUsed is a float in the code and is left out.
RateLimiter_getUsage(st, t) ==
    LET s == resetIfNewDay(st, t)
    IN  [ret |-> [used |-> s.dailyCalls,
                  limit |-> maxDailyCalls,
                  remaining |-> Max(0, maxDailyCalls - s.dailyCalls)],
         state |-> s]

----------------------------------------------------------------------------
(* The cost ledger: apiCostsAtom (src/lib/atoms.ts) and the operations the  *)
(* specification gives it.  Only the atom and its type are in the sources;  *)
(* rollover and recordCost follow the contract of the Cost Ledger: the      *)
(* active period is closed into history and a zero-valued one opened the    *)
(* first time the wall-clock month differs from the stored one.             *)

\* new Date().toISOString().slice(0, 7), as the number of the month.  Only
\* the number matters: the months of the model are five days long, which
\* keeps the clock of a few months within 32 bits.
MONTH_MS == 5 * DAY_MS

MonthOf(t) == t \div MONTH_MS

\* the initial value of apiCostsAtom, created at instant t
ApiCostsDefault(t) ==
    [currentMonth |-> MonthOf(t), claudeCosts |-> 0, fmpCalls |-> 0, analyses |-> 0,
     budget |-> 30, history |-> <<>>]

\* Variant that is wrong on purpose: the period is closed at every call.
rollover_always(costs, t) ==
    [costs EXCEPT !.history = Append(@, [month |-> costs.currentMonth,
                                          total |-> costs.claudeCosts]),
                  !.currentMonth = MonthOf(t),
                  !.claudeCosts = 0, !.fmpCalls = 0, !.analyses = 0]

\* rollover(): closes the active period into history and opens a zero-valued
\* new one, when the wall-clock month differs from the stored one
rollover(costs, t) ==
    IF MonthOf(t) # costs.currentMonth
    THEN [costs EXCEPT !.history = Append(@, [month |-> costs.currentMonth,
                                               total |-> costs.claudeCosts]),
                       !.currentMonth = MonthOf(t),
                       !.claudeCosts = 0, !.fmpCalls = 0, !.analyses = 0]
    ELSE costs

\* recordCost(amount, kind): accumulates into the current period, after the
\* lazy rollover
recordCost(costs, amount, kind, t) ==
    LET c == rollover(costs, t)
    IN  IF kind = "claude"
        THEN [c EXCEPT !.claudeCosts = @ + amount, !.analyses = @ + 1]
        ELSE [c EXCEPT !.fmpCalls = @ + 1]

----------------------------------------------------------------------------
(* Initial values shared by the specifications.                             *)

Handlers == {1, 2}

NoCall == [op |-> "none", key |-> "", ret |-> Null]

\* the handler of POST /api/watchlist/prices before a request
WatchIdle ==
    [pc |-> "idle", tickers |-> <<>>, key |-> "",
     res |-> [status |-> 0, prices |-> Null, cached |-> FALSE]]

InitShared ==
    /\ now = 0
    /\ cache = EmptyMap
    /\ fmpRateLimiter = [dailyCalls |-> 0, date |-> getCurrentDate(0)]
    /\ rateLimiter = <<>>
    /\ env = {}
    /\ activeProvider = "fmp"
    /\ req = [h \in Handlers |-> [pc |-> "idle"]]
    /\ last = NoCall
    /\ lastSet = EmptyMap
    /\ window = [day |-> getCurrentDate(0), calls |-> 0]
    /\ issued = [fmp |-> [day |-> getCurrentDate(0), n |-> 0], finnhub |-> <<>>]
    /\ started = 0
    /\ analyze = [h \in Handlers |-> [pc |-> "idle"]]
    /\ macro = 16
    /\ reasoning = <<>>
    /\ apiCosts = ApiCostsDefault(0)
    /\ rolled = {}
    /\ watch = WatchIdle

----------------------------------------------------------------------------
(* SpecCache: the MemoryCache class under arbitrary calls of its methods    *)
(* and clock advances.                                                      *)

CacheMaxTime == 4
MaxTtl == 2

CacheKeys == {"k1", "k2"}
CacheValues == {Null, Arr(<<>>), Arr(<<"AAPL">>)}
CacheTtls == 1..MaxTtl

notCache == <<fmpRateLimiter, rateLimiter, env, activeProvider, req, window, issued, started,
              analyze, macro, reasoning,
      apiCosts, rolled, watch>>

\* over is history: the entry the set replaced, if there was one.
CacheSet(k, v, ttl) ==
    /\ cache' = MemoryCache_set(cache, k, v, ttl, now)
    /\ last' = [op |-> "set", key |-> k, ret |-> v,
                over |-> IF k \in DOMAIN cache THEN <<cache[k]>> ELSE <<>>]
    /\ lastSet' = MapSet(lastSet, k, [at |-> now, ttl |-> ttl, data |-> v])
    /\ UNCHANGED <<now, notCache>>

CacheGet(k) ==
    LET g == MemoryCache_get(cache, k, now)
    IN  /\ cache' = g.cache
        /\ last' = [op |-> "get", key |-> k, ret |-> g.ret]
        /\ UNCHANGED <<now, lastSet, notCache>>

CacheHas(k) ==
    LET g == MemoryCache_has(cache, k, now)
    IN  /\ cache' = g.cache
        /\ last' = [op |-> "has", key |-> k, ret |-> g.ret]
        /\ UNCHANGED <<now, lastSet, notCache>>

CacheDelete(k) ==
    /\ cache' = MemoryCache_delete(cache, k)
    /\ last' = [op |-> "delete", key |-> k, ret |-> Null]
    /\ UNCHANGED <<now, lastSet, notCache>>

CacheCleanup ==
    /\ cache' = MemoryCache_cleanup(cache, now)
    /\ last' = [op |-> "cleanup", key |-> "", ret |-> Null]
    /\ UNCHANGED <<now, lastSet, notCache>>

CacheClear ==
    /\ cache' = MemoryCache_clear(cache)
    /\ last' = [op |-> "clear", key |-> "", ret |-> Null]
    /\ UNCHANGED <<now, lastSet, notCache>>

\* The clock advances by one millisecond; the record of the last call is
\* dropped, so that last always describes a call made at the instant now.
CacheTick ==
    /\ now < CacheMaxTime
    /\ now' = now + 1
    /\ last' = NoCall
    /\ UNCHANGED <<cache, lastSet, notCache>>

NextCache ==
    \/ \E k \in CacheKeys, v \in CacheValues, ttl \in CacheTtls : CacheSet(k, v, ttl)
    \/ \E k \in CacheKeys : CacheGet(k)
    \/ \E k \in CacheKeys : CacheHas(k)
    \/ \E k \in CacheKeys : CacheDelete(k)
    \/ CacheCleanup
    \/ CacheClear
    \/ CacheTick

SpecCache == InitShared /\ [][NextCache]_vars

\* A get of key k right after set(k, v, ttl), at the same instant.
C1_ImmediateGet ==
    (last.op = "set" /\ last'.op = "get" /\ last'.key = last.key /\ now' = now)
        => last'.ret = last.ret

C1_LateGetAbsent ==
    (last.op = "get" /\ last.key \in DOMAIN lastSet
        /\ now > lastSet[last.key].at + lastSet[last.key].ttl)
        => last.ret = Null

\* C1: get(k) at the instant of set(k, v, ttl) returns v, and get(k) at any
\* instant strictly later than set-time + ttl, with no set on k in between,
\* returns null.
C1_TtlCorrectness == [][C1_ImmediateGet]_vars /\ [](C1_LateGetAbsent)

\* A get later than set-time + ttl of a key that was set with a non-null
\* value, and that no delete, clear or cleanup removed in between.
C1_Witness ==
    /\ last.op = "get"
    /\ last.key \in DOMAIN lastSet
    /\ now = lastSet[last.key].at + lastSet[last.key].ttl + 1
    /\ lastSet[last.key].data # Null
    /\ last.ret = Null

C2_Expired(k) == k \in DOMAIN cache /\ cache[k].expiresAt < now

C2_Step ==
    \A k \in CacheKeys :
        /\ (last'.op = "get" /\ last'.key = k /\ C2_Expired(k))
            => /\ last'.ret = Null
               /\ k \notin MemoryCache_stats(cache').keys
               /\ \A j \in CacheKeys \ {k} :
                    /\ (j \in DOMAIN cache') = (j \in DOMAIN cache)
                    /\ j \in DOMAIN cache => cache'[j] = cache[j]
        /\ (last'.op = "has" /\ last'.key = k /\ C2_Expired(k))
            => last'.ret = Bool(FALSE)

\* C2: no get or has returns an entry whose expiresAt is earlier than the
\* current time; a get on such an entry removes it from the map (it is no
\* longer among stats().keys) and changes no other key.
C2_NeverServeExpired == [][C2_Step]_vars

\* An expired entry was read by get and is gone, while another key is still
\* in the map.
C2_Witness ==
    /\ last.op = "get"
    /\ last.ret = Null
    /\ last.key \in DOMAIN lastSet
    /\ now > lastSet[last.key].at + lastSet[last.key].ttl
    /\ last.key \notin DOMAIN cache
    /\ DOMAIN cache # {}

----------------------------------------------------------------------------
(* SpecLimiter: the RateLimiter class (quota 250, as fmpRateLimiter is      *)
(* constructed) under arbitrary calls of its methods and clock advances.    *)

LimiterMaxDays == 2
MaxOver == 1

notLimiter == <<cache, rateLimiter, env, activeProvider, req, lastSet, issued, started,
                analyze, macro, reasoning,
      apiCosts, rolled, watch>>

\* The calls recorded so far in the calendar day of instant t.
CallsToday(t) == IF window.day = getCurrentDate(t) THEN window.calls ELSE 0

LimiterCanMakeCall ==
    LET r == RateLimiter_canMakeCall(fmpRateLimiter, now)
    IN  /\ fmpRateLimiter' = r.state
        /\ last' = [op |-> "canMakeCall", key |-> "", ret |-> Bool(r.ret)]
        /\ UNCHANGED <<now, window, notLimiter>>

\* recordCall itself never refuses; the model stops counting MaxOver calls
\* above the quota.
LimiterRecordCall ==
    /\ CallsToday(now) < maxDailyCalls + MaxOver
    /\ fmpRateLimiter' = RateLimiter_recordCall(fmpRateLimiter, now)
    /\ last' = [op |-> "recordCall", key |-> "", ret |-> Null]
    /\ window' = [day |-> getCurrentDate(now), calls |-> CallsToday(now) + 1]
    /\ UNCHANGED <<now, notLimiter>>

LimiterGetUsage ==
    LET r == RateLimiter_getUsage(fmpRateLimiter, now)
    IN  /\ fmpRateLimiter' = r.state
        /\ last' = [op |-> "getUsage", key |-> "", ret |-> r.ret]
        /\ UNCHANGED <<now, window, notLimiter>>

\* The clock advances by half a day.
LimiterTick ==
    /\ now < LimiterMaxDays * DAY_MS
    /\ now' = now + DAY_MS \div 2
    /\ last' = NoCall
    /\ UNCHANGED <<fmpRateLimiter, window, notLimiter>>

NextLimiter ==
    \/ LimiterCanMakeCall
    \/ LimiterRecordCall
    \/ LimiterGetUsage
    \/ LimiterTick

SpecLimiter == InitShared /\ [][NextLimiter]_vars

\* C3: with quota L = maxDailyCalls and n calls recorded in the current
\* calendar day, canMakeCall() is true when n < L and false when n = L; once
\* the calendar day has changed (no call recorded in the new day yet),
\* canMakeCall() is true and getUsage().used is 0.
C3_LimiterMonotonicity ==
    /\ (last.op = "canMakeCall" /\ CallsToday(now) <= maxDailyCalls)
        => last.ret = Bool(CallsToday(now) < maxDailyCalls)
    /\ last.op = "getUsage" => last.ret.used = CallsToday(now)

\* canMakeCall() answered false right after the L-th recorded call of the day.
C3_Witness ==
    /\ last.op = "canMakeCall"
    /\ last.ret = Bool(FALSE)
    /\ window.day = getCurrentDate(now)
    /\ window.calls = maxDailyCalls

C7_Access == last'.op \in {"canMakeCall", "recordCall", "getUsage"}

C7_Added == IF last'.op = "recordCall" THEN 1 ELSE 0

C7_Step ==
    /\ (C7_Access /\ fmpRateLimiter.date # getCurrentDate(now))
        => /\ fmpRateLimiter'.date = getCurrentDate(now)
           /\ fmpRateLimiter'.dailyCalls = C7_Added
           /\ last'.op = "canMakeCall" => last'.ret = Bool(TRUE)
    /\ (C7_Access /\ fmpRateLimiter.date = getCurrentDate(now))
        => /\ fmpRateLimiter'.date = fmpRateLimiter.date
           /\ fmpRateLimiter'.dailyCalls = fmpRateLimiter.dailyCalls + C7_Added
    /\ ~C7_Access => fmpRateLimiter' = fmpRateLimiter

\* C7: the first canMakeCall, recordCall or getUsage after the calendar-date
\* key changed resets the counter to 0 and advances the key before the
\* operation is evaluated; an access on the stored day never resets the
\* counter; nothing but an access changes the limiter.
C7_LazyRollover == [][C7_Step]_vars

\* A limiter that was exhausted and then idle across midnight has answered
\* canMakeCall() = true and counts from 0 in the new day.
C7_Witness ==
    /\ last.op = "canMakeCall"
    /\ last.ret = Bool(TRUE)
    /\ window.calls >= maxDailyCalls
    /\ window.day < getCurrentDate(now)
    /\ fmpRateLimiter = [dailyCalls |-> 0, date |-> getCurrentDate(now)]

----------------------------------------------------------------------------
(* FinnhubRateLimiter (src/lib/finnhub.ts): calls is the array of the       *)
(* instants at which calls were recorded.                                   *)

MINUTE_MS == 60000

maxCallsPerMinute == 60

FinnhubRateLimiter_cleanup(calls, t) ==
    LET oneMinuteAgo == t - MINUTE_MS
        Recent(x) == x > oneMinuteAgo
    IN  SelectSeq(calls, Recent)

FinnhubRateLimiter_canMakeCall(calls, t) ==
    LET c == FinnhubRateLimiter_cleanup(calls, t)
    IN  [ret |-> Len(c) < maxCallsPerMinute, calls |-> c]

FinnhubRateLimiter_recordCall(calls, t) == Append(calls, t)

FinnhubRateLimiter_getUsage(calls, t) ==
    LET c == FinnhubRateLimiter_cleanup(calls, t)
    IN  [ret |-> [used |-> Len(c),
                  limit |-> maxCallsPerMinute,
                  remaining |-> maxCallsPerMinute - Len(c)],
         calls |-> c]

----------------------------------------------------------------------------
(* Strings.  The conversions are tabulated on the strings the model uses.   *)

toUpperCase(s) ==
    CASE s = "aapl" -> "AAPL"
      [] s = "Apple " -> "APPLE "
      [] s = "apple" -> "APPLE"
      [] s = "1d" -> "1D"
      [] OTHER -> s

toLowerCase(s) ==
    CASE s = "AAPL" -> "aapl"
      [] s = "Apple " -> "apple "
      [] s = "Apple" -> "apple"
      [] s = "1D" -> "1d"
      [] s = "1M" -> "1m"
      [] OTHER -> s

trim(s) ==
    CASE s = "Apple " -> "Apple"
      [] s = "apple " -> "apple"
      [] s = " " -> ""
      [] OTHER -> s

\* symbol.includes('.')
includesDot(s) == s \in {"AAPL.DE", "AAPL.L"}

----------------------------------------------------------------------------
(* Errors, optional fields and the values of the gateway.                   *)

\* An Error with the fields of FMPError / FinnhubError; statusCode 0 stands
\* for an undefined statusCode.
Err(name, message, statusCode, isRateLimit) ==
    [name |-> name, message |-> message, statusCode |-> statusCode,
     isRateLimit |-> isRateLimit]

NoError == Err("", "", 0, FALSE)

\* o.name when the object has the field, else the default (undefined).
Field(o, name, default) == IF name \in DOMAIN o THEN o[name] ELSE default

\* Stock, as searchStocks builds it (name, change and changePercent are
\* copied from the upstream answer and left out).
Stock(ticker, price, marketCap, sector, exchange, volume, avgVolume) ==
    [ticker |-> ticker, price |-> price, marketCap |-> marketCap,
     sector |-> sector, exchange |-> exchange,
     volume |-> volume, avgVolume |-> avgVolume]

\* Quote, as getQuote builds it (open, high, low, previousClose, change,
\* changePercent and timestamp are copied from the upstream answer and left
\* out).
Quote(ticker, price, volume) ==
    [kind |-> "object", ticker |-> ticker, price |-> price, volume |-> volume]

DEFAULT_QUALITY_FILTERS ==
    [minMarketCap |-> 500000000,
     minPrice |-> 5,
     minVolume |-> 500000,
     allowedExchanges |-> {"NYSE", "NASDAQ", "AMEX"}]

\* a ?? b on optional numbers: <<>> is undefined, <<n>> is the number n.
Coalesce(a, b) == IF a # <<>> THEN a ELSE b

applyQualityFilters_strict(stocks, filters) ==
    LET Keep(stock) ==
            /\ stock.marketCap >= filters.minMarketCap
            /\ stock.price > filters.minPrice
            /\ Coalesce(stock.avgVolume, Coalesce(stock.volume, <<0>>))[1] >= filters.minVolume
            /\ stock.exchange \in filters.allowedExchanges
    IN  SelectSeq(stocks, Keep)

applyQualityFilters(stocks, filters) ==
    LET Keep(stock) ==
            /\ stock.marketCap >= filters.minMarketCap
            /\ stock.price >= filters.minPrice
            /\ Coalesce(stock.avgVolume, Coalesce(stock.volume, <<0>>))[1] >= filters.minVolume
            /\ stock.exchange \in filters.allowedExchanges
    IN  SelectSeq(stocks, Keep)

RECURSIVE SortByDate(_)
\* prices.sort((a, b) => date(a) - date(b)): ascending by date, stable.
SortByDate(prices) ==
    IF Len(prices) <= 1
    THEN prices
    ELSE LET rest == SortByDate(Tail(prices))
             x == Head(prices)
             Before(p) == p.date < x.date
             NotBefore(p) == ~(p.date < x.date)
         IN  SelectSeq(rest, Before) \o <<x>> \o SelectSeq(rest, NotBefore)

Take(seq, n) == IF Len(seq) <= n THEN seq ELSE SubSeq(seq, 1, n)

----------------------------------------------------------------------------
(* Requests.  A handler record r holds one call of a gateway operation:     *)
(* its arguments, where it waits (pc), its upstream fetches (f, at most two *)
(* at a time) and what it returned (res).  sent and recorded are history:   *)
(* the fetches this call issued and the recordCall calls made for them.     *)
(* The operators below work on a record w of the shared state they may      *)
(* change (cache, the two limiters, issued) and the handler record r.       *)

Slot(st, ep, val, err) == [st |-> st, ep |-> ep, val |-> val, err |-> err]

FreeSlot == Slot("free", "", Null, NoError)

NoResult == [status |-> "none", value |-> Null, error |-> NoError]

NewRequest(provider, op, arg, range) ==
    [pc |-> "start", provider |-> provider, op |-> op, arg |-> arg,
     range |-> range, f |-> <<FreeSlot, FreeSlot>>, todo |-> <<>>, acc |-> <<>>,
     res |-> NoResult, sent |-> 0, recorded |-> 0, log |-> <<>>]

\* return v
Return(w, v) ==
    [w EXCEPT !.r.pc = "done",
              !.r.res = [status |-> "ok", value |-> v, error |-> NoError]]

\* Variant that is wrong on purpose: the failure is remembered, an empty
\* result is stored under the key of the operation before the throw.
Throw_negative(w, e) ==
    [w EXCEPT !.r.pc = "done",
              !.r.res = [status |-> "error", value |-> Null, error |-> e],
              !.cache = MapSet(@, w.r.op \o ":" \o w.r.arg, CacheEntry(Null, 0))]

\* throw e
Throw(w, e) ==
    [w EXCEPT !.r.pc = "done",
              !.r.res = [status |-> "error", value |-> Null, error |-> e]]

Release(w, i) == [w EXCEPT !.r.f[i] = FreeSlot]

Settled(slot) == slot.st \in {"ok", "failed"}

\* History: one more fetch issued at instant t.
IssuedFmp(issd, t) ==
    LET d == getCurrentDate(t)
    IN  [issd EXCEPT !.fmp = [day |-> d, n |-> IF @.day = d THEN @.n + 1 ELSE 1]]

IssuedFinnhub(issd, t) ==
    LET Recent(x) == x > t - MINUTE_MS
    IN  [issd EXCEPT !.finnhub = Append(SelectSeq(@, Recent), t)]

----------------------------------------------------------------------------
(* fmpFetch (src/lib/market-data.ts), in its three pieces: up to the await  *)
(* of fetch, from the response to the await of response.json(), and from    *)
(* the parsed body to the return.                                           *)

\* if (!canMakeCall()) throw 429; getApiKey(); fetch(url)
fmpFetch_begin(w, i, endpoint, t) ==
    LET can == RateLimiter_canMakeCall(w.fmp, t)
        w1 == [w EXCEPT !.fmp = can.state]
    IN  IF ~can.ret
        THEN [w1 EXCEPT !.r.f[i] = Slot("failed", endpoint, Null,
                Err("FMPError", "Daily API limit reached (250 calls). Try again tomorrow.", 429, TRUE))]
        ELSE IF "FMP_API_KEY" \notin env
        THEN [w1 EXCEPT !.r.f[i] = Slot("failed", endpoint, Null,
                Err("FMPError", "FMP_API_KEY environment variable is not set", 0, FALSE))]
        ELSE [w1 EXCEPT !.r.f[i] = Slot("inflight", endpoint, Null, NoError),
                        !.r.sent = @ + 1,
                        !.issued = IssuedFmp(@, t)]

FMPStatusError(status, endpoint) ==
    CASE status = 429 -> Err("FMPError", "Rate limit exceeded", 429, TRUE)
      [] status = 403 -> Err("FMPError", "API access denied for endpoint", 403, FALSE)
      [] status = 401 -> Err("FMPError", "Invalid API key. Please check your FMP_API_KEY.", 401, FALSE)
      [] OTHER -> Err("FMPError", "FMP API error: " \o endpoint, status, FALSE)

ok(status) == status >= 200 /\ status <= 299

\* The fetch settles: status 0 stands for a rejected fetch (network error),
\* which skips recordCall and lands in the catch block.
fmpFetch_response(w, i, status, t) ==
    IF status = 0
    THEN [w EXCEPT !.r.f[i].st = "failed",
                   !.r.f[i].err = Err("FMPError", "fetch failed", 0, FALSE)]
    ELSE LET w1 == [w EXCEPT !.fmp = RateLimiter_recordCall(w.fmp, t),
                             !.r.recorded = @ + 1]
         IN  IF ~ok(status)
             THEN [w1 EXCEPT !.r.f[i].st = "failed",
                             !.r.f[i].err = FMPStatusError(status, w.r.f[i].ep)]
             ELSE [w1 EXCEPT !.r.f[i].st = "body"]

\* A body is [text, data]: text "json" with the parsed data, or a text that
\* is no JSON ("html", "garbage").
Body(text, data) == [text |-> text, data |-> data]

\* data = await response.json(); 'Error Message' in data
fmpFetch_body(w, i, body) ==
    IF body.text # "json"
    THEN [w EXCEPT !.r.f[i].st = "failed",
                   !.r.f[i].err = Err("FMPError", "Unexpected token", 0, FALSE)]
    ELSE IF body.data.kind = "object" /\ "ErrorMessage" \in DOMAIN body.data
    THEN [w EXCEPT !.r.f[i].st = "failed",
                   !.r.f[i].err = Err("FMPError", body.data.ErrorMessage, 0, FALSE)]
    ELSE [w EXCEPT !.r.f[i].st = "ok", !.r.f[i].val = body.data]

----------------------------------------------------------------------------
(* finnhubFetch (src/lib/finnhub.ts), in its pieces: up to the await of     *)
(* fetch; from the response to the await of response.json() (not ok) or of  *)
(* response.text() (ok); and from there to the throw or the return.         *)

finnhubFetch_begin(w, i, endpoint, t) ==
    LET can == FinnhubRateLimiter_canMakeCall(w.fh, t)
        w1 == [w EXCEPT !.fh = can.calls]
    IN  IF ~can.ret
        THEN [w1 EXCEPT !.r.f[i] = Slot("failed", endpoint, Null,
                Err("FinnhubError", "Rate limit reached (60 calls/minute). Please wait a moment.", 429, TRUE))]
        ELSE IF "FINNHUB_API_KEY" \notin env
        THEN [w1 EXCEPT !.r.f[i] = Slot("failed", endpoint, Null,
                Err("FinnhubError", "FINNHUB_API_KEY environment variable is not set", 0, FALSE))]
        ELSE [w1 EXCEPT !.r.f[i] = Slot("inflight", endpoint, Null, NoError),
                        !.r.sent = @ + 1,
                        !.issued = IssuedFinnhub(@, t)]

FinnhubStatusError(status, errorMessage, endpoint) ==
    CASE status = 429 -> Err("FinnhubError", "Rate limit exceeded. Please wait a moment.", 429, TRUE)
      [] status = 403 /\ errorMessage = "You don't have access to this resource." ->
            Err("FinnhubError", "This feature requires a Finnhub paid subscription", 403, FALSE)
      [] status = 403 -> Err("FinnhubError", "Invalid API key. Please check your FINNHUB_API_KEY.", 403, FALSE)
      [] status = 401 -> Err("FinnhubError", "Invalid API key. Please check your FINNHUB_API_KEY.", 401, FALSE)
      [] OTHER -> Err("FinnhubError", "Finnhub API error: " \o endpoint, status, FALSE)

\* The fetch settles; a not-ok response is kept (its status in err) until
\* its error body is read.
finnhubFetch_response(w, i, status, t) ==
    IF status = 0
    THEN [w EXCEPT !.r.f[i].st = "failed",
                   !.r.f[i].err = Err("FinnhubError", "fetch failed", 0, FALSE)]
    ELSE LET w1 == [w EXCEPT !.fh = FinnhubRateLimiter_recordCall(w.fh, t),
                             !.r.recorded = @ + 1]
         IN  IF ~ok(status)
             THEN [w1 EXCEPT !.r.f[i].st = "errbody",
                             !.r.f[i].err = Err("", "", status, FALSE)]
             ELSE [w1 EXCEPT !.r.f[i].st = "body"]

\* errorData = await response.json(); throw by status
finnhubFetch_errbody(w, i, errorMessage) ==
    [w EXCEPT !.r.f[i].st = "failed",
              !.r.f[i].err = FinnhubStatusError(w.r.f[i].err.statusCode, errorMessage, w.r.f[i].ep)]

\* text = await response.text(); HTML check; JSON.parse(text)
finnhubFetch_body(w, i, body) ==
    IF body.text = "html"
    THEN [w EXCEPT !.r.f[i].st = "failed",
                   !.r.f[i].err = Err("FinnhubError", "Finnhub API returned an error page", 500, FALSE)]
    ELSE IF body.text # "json"
    THEN [w EXCEPT !.r.f[i].st = "failed",
                   !.r.f[i].err = Err("FinnhubError", "Invalid JSON response from Finnhub", 500, FALSE)]
    ELSE [w EXCEPT !.r.f[i].st = "ok", !.r.f[i].val = body.data]

----------------------------------------------------------------------------
(* The gateway operations of the two providers.  cacheKey is the key each   *)
(* operation computes; Start is the operation up to its first await; Cont   *)
(* is what it does when a fetch it awaits has settled, up to the next await *)
(* or the return.                                                           *)

cacheKey(provider, op, arg, range) ==
    LET prefix == IF provider = "finnhub" THEN "finnhub:" ELSE ""
    IN  CASE op = "search" -> prefix \o "search:" \o trim(toLowerCase(arg))
          [] op = "quote" -> prefix \o "quote:" \o toUpperCase(arg)
          [] op = "fundamentals" -> prefix \o "fundamentals:" \o toUpperCase(arg)
          [] op = "history" -> prefix \o "history:" \o toUpperCase(arg) \o ":" \o range

keyOf(r) == cacheKey(r.provider, r.op, r.arg, r.range)

\* range === '1D' || range === '1W' ? HISTORICAL_INTRADAY : HISTORICAL_DAILY
historyTtl(range) ==
    IF range = "1D" \/ range = "1W"
    THEN CACHE_TTL.HISTORICAL_INTRADAY
    ELSE CACHE_TTL.HISTORICAL_DAILY

ttlOf(r) ==
    CASE r.op = "search" -> CACHE_TTL.SEARCH
      [] r.op = "quote" -> CACHE_TTL.QUOTE
      [] r.op = "fundamentals" -> CACHE_TTL.FUNDAMENTALS
      [] r.op = "history" -> historyTtl(r.range)

\* Variant that is wrong on purpose: the first write wins, a later result is
\* returned but not stored while an entry is live.
SetAndReturn_ifAbsent(w, v, t) ==
    IF keyOf(w.r) \in DOMAIN w.cache /\ ~(t > w.cache[keyOf(w.r)].expiresAt)
    THEN Return(w, v)
    ELSE Return([w EXCEPT !.cache = MemoryCache_set(w.cache, keyOf(w.r), v, ttlOf(w.r), t)], v)

\* serverCache.set(cacheKey, v, ttl); return v
SetAndReturn(w, v, t) ==
    Return([w EXCEPT !.cache = MemoryCache_set(w.cache, keyOf(w.r), v, ttlOf(w.r), t)], v)

\* provider-specific fetch up to its await, on slot i
Begin(w, i, endpoint, t) ==
    IF w.r.provider = "fmp"
    THEN fmpFetch_begin(w, i, endpoint, t)
    ELSE finnhubFetch_begin(w, i, endpoint, t)

\* FMP searchStocks: quotes.map(quote => Stock), sector from the profile
FmpStocks(quotes, profiles) ==
    LET Sector(sym) ==
            IF \E j \in 1..Len(profiles) : profiles[j].symbol = sym
            THEN LET j == CHOOSE j \in 1..Len(profiles) :
                            /\ profiles[j].symbol = sym
                            /\ \A k \in (j+1)..Len(profiles) : profiles[k].symbol # sym
                 IN  IF profiles[j].sector = "" THEN "Unknown" ELSE profiles[j].sector
            ELSE "Unknown"
        ToStock(q) == Stock(q.symbol, q.price, q.marketCap, Sector(q.symbol),
                            q.exchange, <<q.volume>>, <<q.avgVolume>>)
    IN  [i \in 1..Len(quotes) |-> ToStock(quotes[i])]

\* FMP getFundamentals (the fields that are always null are left out)
FmpFundamentals(profile, quotes) ==
    [kind |-> "object", ticker |-> profile.symbol, sector |-> profile.sector,
     marketCap |-> profile.mktCap, avgVolume |-> profile.volAvg,
     pe |-> IF Len(quotes) > 0 /\ quotes[1].pe # 0 THEN <<quotes[1].pe>> ELSE <<>>]

\* Finnhub getFundamentals; profile and quote are Null when their fetch failed
FinnhubFundamentals(ticker, profile, quote) ==
    LET cap == IF profile = Null THEN 0 ELSE Field(profile, "marketCapitalization", 0)
    IN  [kind |-> "object",
         ticker |-> IF profile # Null /\ Field(profile, "ticker", "") # ""
                    THEN profile.ticker ELSE toUpperCase(ticker),
         sector |-> IF profile # Null /\ Field(profile, "finnhubIndustry", "") # ""
                    THEN profile.finnhubIndustry ELSE "Unknown",
         marketCap |-> IF cap # 0 THEN cap * 1000000 ELSE 0,
         avgVolume |-> 0,
         pe |-> <<>>]

\* PriceData of the points of an FMP answer (open, high, low, volume left out)
FmpPrices(historicalData) ==
    LET ToPrice(x) == [date |-> x.date, close |-> x.close]
    IN  [i \in 1..Len(historicalData) |-> ToPrice(historicalData[i])]

\* PriceData of Finnhub candles: candles.t.map((timestamp, i) => ...)
FinnhubPrices(candles) ==
    [i \in 1..Len(candles.t) |-> [date |-> candles.t[i], close |-> candles.c[i]]]

FmpExchanges == {"NYSE", "NASDAQ", "AMEX"}

\* endpoint of FMP getHistoricalPrices
FmpHistoryEndpoint(range) ==
    CASE range = "1D" -> "historical-chart/5min"
      [] range = "1W" -> "historical-chart/15min"
      [] OTHER -> "historical-price-full"

\* Quote[] of an FMP batch answer: quotes.map(q => ({ticker: q.symbol, ...}))
FmpQuotes(quotes) ==
    [i \in 1..Len(quotes) |-> Quote(quotes[i].symbol, quotes[i].price, quotes[i].volume)]

\* One ticker of the Finnhub getBatchQuotes loop is done: how it went is
\* appended to the history r.log.
NextTicker(w, how) ==
    [w EXCEPT !.r.todo = Tail(@), !.r.log = Append(@, how)]

\* Finnhub getBatchQuotes: the for loop from the head of an iteration to the
\* await of a fetch or to the return.  getQuote(ticker) answers from the
\* cache, or throws before its fetch (the catch of the loop logs it and
\* goes on), or awaits finnhubFetch.
RECURSIVE FinnhubBatchLoop(_, _)
FinnhubBatchLoop(w, t) ==
    IF w.r.todo = <<>>
    THEN Return(w, Arr(w.r.acc))
    ELSE LET key == cacheKey("finnhub", "quote", Head(w.r.todo), "")
             g == MemoryCache_get(w.cache, key, t)
             w1 == [w EXCEPT !.cache = g.cache]
             w2 == finnhubFetch_begin(w1, 1, "quote", t)
         IN  IF Truthy(g.ret)
             THEN FinnhubBatchLoop(
                    NextTicker([w1 EXCEPT !.r.acc = Append(@, g.ret)], "hit"), t)
             ELSE IF w2.r.f[1].st = "failed"
             THEN FinnhubBatchLoop(NextTicker(Release(w2, 1), "refused"), t)
             ELSE w2

RECURSIVE Cont(_, _)
Cont(w, t) ==
    LET r == w.r
        a == r.f[1]
        b == r.f[2]
    IN
    CASE r.pc = "done" ->
            \* a fetch that outlives its operation: its result is dropped
            IF Settled(a) THEN Cont(Release(w, 1), t)
            ELSE IF Settled(b) THEN Cont(Release(w, 2), t)
            ELSE w
      \* ---- getQuote ----
      [] r.op = "quote" /\ r.pc = "wait" /\ a.st = "failed" ->
            Throw(Release(w, 1), a.err)
      [] r.op = "quote" /\ r.pc = "wait" /\ a.st = "ok" /\ r.provider = "fmp" ->
            LET quotes == a.val.items
                w1 == Release(w, 1)
            IN  IF Len(quotes) = 0
                THEN Throw(w1, Err("FMPError", "No quote found for " \o r.arg, 0, FALSE))
                ELSE SetAndReturn(w1, Quote(quotes[1].symbol, quotes[1].price, quotes[1].volume), t)
      [] r.op = "quote" /\ r.pc = "wait" /\ a.st = "ok" /\ r.provider = "finnhub" ->
            LET q == a.val
                w1 == Release(w, 1)
            IN  IF q.c = 0
                THEN Throw(w1, Err("FinnhubError", "No quote found for " \o r.arg, 0, FALSE))
                ELSE SetAndReturn(w1, Quote(toUpperCase(r.arg), q.c, 0), t)
      \* ---- getHistoricalPrices ----
      [] r.op = "history" /\ r.pc = "wait" /\ a.st = "failed" ->
            Throw(Release(w, 1), a.err)
      [] r.op = "history" /\ r.pc = "wait" /\ a.st = "ok" /\ r.provider = "fmp" ->
            LET data == a.val
                historicalData == IF data.kind = "array" THEN data.items
                                  ELSE Field(data, "historical", <<>>)
                prices == SortByDate(FmpPrices(historicalData))
            IN  SetAndReturn(Release(w, 1), Arr(prices), t)
      [] r.op = "history" /\ r.pc = "wait" /\ a.st = "ok" /\ r.provider = "finnhub" ->
            LET candles == a.val
                w1 == Release(w, 1)
            IN  IF Field(candles, "s", "") # "ok" \/ "t" \notin DOMAIN candles
                THEN Return(w1, Arr(<<>>))
                ELSE SetAndReturn(w1, Arr(FinnhubPrices(candles)), t)
      \* ---- FMP getFundamentals: Promise.all of profile and quote ----
      [] r.op = "fundamentals" /\ r.provider = "fmp" /\ r.pc = "all" /\ a.st = "failed" ->
            Cont(Throw(Release(w, 1), a.err), t)
      [] r.op = "fundamentals" /\ r.provider = "fmp" /\ r.pc = "all"
            /\ a.st # "failed" /\ b.st = "failed" ->
            Cont(Throw(Release(w, 2), b.err), t)
      [] r.op = "fundamentals" /\ r.provider = "fmp" /\ r.pc = "all"
            /\ a.st = "ok" /\ b.st = "ok" ->
            LET profiles == a.val.items
                quotes == b.val.items
                w1 == Release(Release(w, 1), 2)
            IN  IF Len(profiles) = 0
                THEN Throw(w1, Err("FMPError", "No profile found for " \o r.arg, 0, FALSE))
                ELSE SetAndReturn(w1, FmpFundamentals(profiles[1], quotes), t)
      \* ---- Finnhub getFundamentals: Promise.allSettled of profile and quote ----
      [] r.op = "fundamentals" /\ r.provider = "finnhub" /\ r.pc = "allSettled"
            /\ Settled(a) /\ Settled(b) ->
            LET profile == IF a.st = "ok" THEN a.val ELSE Null
                quote == IF b.st = "ok" THEN b.val ELSE Null
                w1 == Release(Release(w, 1), 2)
                fundamentals == FinnhubFundamentals(r.arg, profile, quote)
            IN  IF profile = Null /\ quote = Null
                THEN Throw(w1, Err("FinnhubError", "No data found for " \o r.arg, 0, FALSE))
                ELSE IF profile # Null /\ Field(profile, "name", "") # ""
                THEN SetAndReturn(w1, fundamentals, t)
                ELSE Return(w1, fundamentals)
      \* ---- FMP searchStocks: search, then quotes, then profiles ----
      [] r.op = "search" /\ r.provider = "fmp" /\ r.pc \in {"search", "quotes"}
            /\ a.st = "failed" ->
            Throw(Release(w, 1), a.err)
      [] r.op = "search" /\ r.provider = "fmp" /\ r.pc = "search" /\ a.st = "ok" ->
            LET searchResults == a.val.items
                Listed(x) == x.exchangeShortName \in FmpExchanges
                symbols == Take(SelectSeq(searchResults, Listed), 20)
                w1 == Release(w, 1)
            IN  IF Len(searchResults) = 0 THEN Return(w1, Arr(<<>>))
                ELSE IF Len(symbols) = 0 THEN Return(w1, Arr(<<>>))
                ELSE Cont(Begin([w1 EXCEPT !.r.pc = "quotes"], 1, "quote", t), t)
      [] r.op = "search" /\ r.provider = "fmp" /\ r.pc = "quotes" /\ a.st = "ok" ->
            LET quotes == a.val.items
                w1 == Release(w, 1)
            IN  IF Len(quotes) = 0 THEN Return(w1, Arr(<<>>))
                ELSE Cont(Begin([w1 EXCEPT !.r.pc = "profiles", !.r.acc = quotes],
                                1, "profile", t), t)
      [] r.op = "search" /\ r.provider = "fmp" /\ r.pc = "profiles" /\ Settled(a) ->
            LET profiles == IF a.st = "ok" THEN a.val.items ELSE <<>>
                stocks == FmpStocks(r.acc, profiles)
                filteredStocks == applyQualityFilters(stocks, DEFAULT_QUALITY_FILTERS)
            IN  SetAndReturn([Release(w, 1) EXCEPT !.r.acc = <<>>], Arr(filteredStocks), t)
      \* ---- Finnhub searchStocks: search, then one quote per stock ----
      [] r.op = "search" /\ r.provider = "finnhub" /\ r.pc = "search" /\ a.st = "failed" ->
            Throw(Release(w, 1), a.err)
      [] r.op = "search" /\ r.provider = "finnhub" /\ r.pc = "search" /\ a.st = "ok" ->
            LET result == Field(a.val, "result", <<>>)
                Us(x) == x.type = "Common Stock" /\ ~includesDot(x.symbol)
                usStocks == Take(SelectSeq(result, Us), 5)
                w1 == Release(w, 1)
            IN  IF Len(result) = 0 THEN Return(w1, Arr(<<>>))
                ELSE IF Len(usStocks) = 0 THEN Return(w1, Arr(<<>>))
                ELSE Cont(Begin([w1 EXCEPT !.r.pc = "loop", !.r.todo = usStocks],
                                1, "quote", t), t)
      [] r.op = "search" /\ r.provider = "finnhub" /\ r.pc = "loop" /\ Settled(a) ->
            LET result == Head(r.todo)
                stocks == IF a.st = "ok" /\ a.val.c # 0
                          THEN Append(r.acc, Stock(result.symbol, a.val.c, 0, "Unknown",
                                                   "US", <<0>>, <<0>>))
                          ELSE r.acc
                Valid(x) == x.price >= 5
                w1 == [Release(w, 1) EXCEPT !.r.todo = Tail(r.todo), !.r.acc = stocks]
            IN  IF Len(r.todo) > 1
                THEN Cont(Begin(w1, 1, "quote", t), t)
                ELSE SetAndReturn([w1 EXCEPT !.r.acc = <<>>],
                                  Arr(SelectSeq(stocks, Valid)), t)
      \* ---- FMP getBatchQuotes: one fetch for all the tickers, no caching ----
      [] r.op = "batchQuotes" /\ r.provider = "fmp" /\ r.pc = "wait" /\ a.st = "failed" ->
            Throw(Release(w, 1), a.err)
      [] r.op = "batchQuotes" /\ r.provider = "fmp" /\ r.pc = "wait" /\ a.st = "ok" ->
            Return(Release(w, 1), Arr(FmpQuotes(a.val.items)))
      \* ---- Finnhub getBatchQuotes: getQuote(ticker) of the loop settles ----
      [] r.op = "batchQuotes" /\ r.provider = "finnhub" /\ r.pc = "loop" /\ Settled(a) ->
            LET ticker == Head(r.todo)
                w1 == Release(w, 1)
                quote == Quote(toUpperCase(ticker), a.val.c, 0)
            IN  IF a.st = "failed"
                THEN FinnhubBatchLoop(
                        NextTicker(w1, IF a.err.message = "fetch failed"
                                       THEN "network" ELSE "error"), t)
                ELSE IF a.val.c = 0
                THEN FinnhubBatchLoop(NextTicker(w1, "noquote"), t)
                ELSE FinnhubBatchLoop(
                        NextTicker([w1 EXCEPT
                            !.cache = MemoryCache_set(w1.cache,
                                        cacheKey("finnhub", "quote", ticker, ""),
                                        quote, CACHE_TTL.QUOTE, t),
                            !.r.acc = Append(@, quote)], "fetched"), t)
      [] OTHER -> w

\* Variant that is wrong on purpose: FMP asked once per ticker.
StartBatch_perTicker(w, t) ==
    IF w.r.provider = "fmp"
    THEN IF Len(w.r.arg) = 0
         THEN Return(w, Arr(<<>>))
         ELSE IF Len(w.r.arg) = 1
         THEN Cont(fmpFetch_begin([w EXCEPT !.r.pc = "wait"], 1, "quote", t), t)
         ELSE Cont(fmpFetch_begin(fmpFetch_begin([w EXCEPT !.r.pc = "wait"],
                                                 1, "quote", t), 2, "quote", t), t)
    ELSE FinnhubBatchLoop([w EXCEPT !.r.pc = "loop", !.r.todo = w.r.arg], t)

\* getBatchQuotes(tickers) from its call to its first await.
StartBatch(w, t) ==
    IF w.r.provider = "fmp"
    THEN IF Len(w.r.arg) = 0
         THEN Return(w, Arr(<<>>))
         ELSE Cont(fmpFetch_begin([w EXCEPT !.r.pc = "wait"], 1, "quote", t), t)
    ELSE FinnhubBatchLoop([w EXCEPT !.r.pc = "loop", !.r.todo = w.r.arg], t)

\* The operation from its call to its first await.
StartOp(w, t) ==
    LET r == w.r
        g == MemoryCache_get(w.cache, keyOf(r), t)
        w1 == [w EXCEPT !.cache = g.cache]
    IN  IF r.op = "search" /\ (r.arg = "" \/ trim(r.arg) = "")
        THEN Return(w, Arr(<<>>))
        ELSE IF Truthy(g.ret)
        THEN Return(w1, g.ret)
        ELSE Cont(CASE r.op = "quote" ->
                    Begin([w1 EXCEPT !.r.pc = "wait"], 1, "quote", t)
               [] r.op = "history" /\ r.provider = "fmp" ->
                    Begin([w1 EXCEPT !.r.pc = "wait"], 1, FmpHistoryEndpoint(r.range), t)
               [] r.op = "history" /\ r.provider = "finnhub" ->
                    Begin([w1 EXCEPT !.r.pc = "wait"], 1, "stock/candle", t)
               [] r.op = "fundamentals" /\ r.provider = "fmp" ->
                    Begin(Begin([w1 EXCEPT !.r.pc = "all"], 1, "profile", t),
                          2, "quote", t)
               [] r.op = "fundamentals" /\ r.provider = "finnhub" ->
                    Begin(Begin([w1 EXCEPT !.r.pc = "allSettled"], 1, "stock/profile2", t),
                          2, "quote", t)
               [] r.op = "search" ->
                    Begin([w1 EXCEPT !.r.pc = "search"], 1, "search", t), t)

----------------------------------------------------------------------------
(* Spec: request handlers calling the gateway operations concurrently, the  *)
(* upstream providers answering, and the clock advancing.                   *)

MaxRequests == 2
Headroom == 1
MaxTicks == 1

Providers == {"fmp", "finnhub"}
Tickers == {"AAPL"}
Queries == {"", "Apple "}
Ranges == {"1D"}

AllKeys == {"FMP_API_KEY", "FINNHUB_API_KEY"}

Idle == [NewRequest("", "", "", "") EXCEPT !.pc = "idle"]

\* what the upstream endpoints may answer
FmpQuoteItem(price, marketCap) ==
    [symbol |-> "AAPL", price |-> price, marketCap |-> marketCap, exchange |-> "NASDAQ",
     volume |-> 1000000, avgVolume |-> 900000, pe |-> 30]

FmpProfileItem ==
    [symbol |-> "AAPL", sector |-> "Technology", mktCap |-> 2000000000, volAvg |-> 900000]

PricePoint(date) == [date |-> date, close |-> 100 + date]

Statuses == {0, 200, 429}
ErrorMessages == {"You don't have access to this resource."}

NotJson == {Body("html", Null)}

Bodies(provider, ep) ==
    NotJson \cup
    CASE provider = "fmp" /\ ep = "search" ->
            {Body("json", Arr(<<>>)),
             Body("json", Arr(<<[symbol |-> "AAPL", exchangeShortName |-> "NASDAQ"]>>)),
             Body("json", Arr(<<[symbol |-> "AAPL.L", exchangeShortName |-> "LSE"]>>)),
             Body("json", [kind |-> "object", ErrorMessage |-> "Invalid API KEY."])}
      [] provider = "fmp" /\ ep = "quote" ->
            {Body("json", Arr(<<>>)),
             Body("json", Arr(<<FmpQuoteItem(100, 2000000000)>>)),
             Body("json", Arr(<<FmpQuoteItem(4, 100000000)>>))}
      [] provider = "fmp" /\ ep = "profile" ->
            {Body("json", Arr(<<>>)),
             Body("json", Arr(<<FmpProfileItem>>))}
      [] provider = "fmp" ->
            {Body("json", Arr(<<>>)),
             Body("json", Arr(<<PricePoint(2), PricePoint(1)>>)),
             Body("json", [kind |-> "object", historical |-> <<PricePoint(1)>>])}
      [] provider = "finnhub" /\ ep = "search" ->
            {Body("json", [kind |-> "object", result |-> <<>>]),
             Body("json", [kind |-> "object", result |->
                <<[symbol |-> "AAPL", type |-> "Common Stock"],
                  [symbol |-> "AAPL.DE", type |-> "Common Stock"],
                  [symbol |-> "APLE", type |-> "Common Stock"]>>]),
             Body("json", [kind |-> "object", result |->
                <<[symbol |-> "AAPL", type |-> "ETP"]>>])}
      [] provider = "finnhub" /\ ep = "quote" ->
            {Body("json", [kind |-> "object", c |-> 0]),
             Body("json", [kind |-> "object", c |-> 4]),
             Body("json", [kind |-> "object", c |-> 100])}
      [] provider = "finnhub" /\ ep = "stock/profile2" ->
            {Body("json", [kind |-> "object"]),
             Body("json", [kind |-> "object", name |-> "Apple Inc", ticker |-> "AAPL",
                           finnhubIndustry |-> "Technology", marketCapitalization |-> 2000])}
      [] provider = "finnhub" /\ ep = "stock/candle" ->
            {Body("json", [kind |-> "object", s |-> "no_data"]),
             Body("json", [kind |-> "object", s |-> "ok", t |-> <<1, 2>>, c |-> <<101, 102>>])}
      [] OTHER -> {}

World(h) ==
    [cache |-> cache, fmp |-> fmpRateLimiter, fh |-> rateLimiter, issued |-> issued,
     r |-> req[h]]

Apply(h, w) ==
    /\ cache' = w.cache
    /\ fmpRateLimiter' = w.fmp
    /\ rateLimiter' = w.fh
    /\ issued' = w.issued
    /\ req' = [req EXCEPT ![h] = w.r]

\* The limiters as earlier traffic of the day (of the minute) left them:
\* unused (k = 0), or k calls short of the quota.
Init ==
    /\ now = 0
    /\ cache = EmptyMap
    /\ env \in {{}, AllKeys}
    /\ activeProvider \in Providers
    /\ \E k \in 0..Headroom :
        LET usedFmp == IF k = 0 THEN 0 ELSE maxDailyCalls - k
            usedFinnhub == IF k = 0 THEN 0 ELSE maxCallsPerMinute - k
        IN  /\ fmpRateLimiter = [dailyCalls |-> usedFmp, date |-> getCurrentDate(0)]
            /\ rateLimiter = [i \in 1..usedFinnhub |-> 0]
            /\ issued = [fmp |-> [day |-> getCurrentDate(0), n |-> usedFmp],
                         finnhub |-> [i \in 1..usedFinnhub |-> 0]]
    /\ req = [h \in Handlers |-> Idle]
    /\ last = NoCall
    /\ lastSet = EmptyMap
    /\ window = [day |-> getCurrentDate(0), calls |-> 0]
    /\ started = 0
    /\ analyze = [h \in Handlers |-> [pc |-> "idle"]]
    /\ macro = 16
    /\ reasoning = <<>>
    /\ apiCosts = ApiCostsDefault(0)
    /\ rolled = {}
    /\ watch = WatchIdle

notGateway == <<env, activeProvider, last, lastSet, window, analyze, macro, reasoning,
      apiCosts, rolled, watch>>

\* A handler calls a gateway operation of the active provider.  Handlers
\* are interchangeable: the first idle one takes the call.
Start(h, op, arg, range) ==
    /\ req[h].pc = "idle"
    /\ \A g \in Handlers : g < h => req[g].pc # "idle"
    /\ started < MaxRequests
    /\ started' = started + 1
    /\ Apply(h, StartOp([World(h) EXCEPT !.r = NewRequest(activeProvider, op, arg, range)],
                        now))
    /\ UNCHANGED <<now, notGateway>>

\* The fetch of slot i settles with an HTTP status (0: the fetch rejects).
Response(h, i, status) ==
    /\ req[h].f[i].st = "inflight"
    /\ Apply(h, Cont(IF req[h].provider = "fmp"
                     THEN fmpFetch_response(World(h), i, status, now)
                     ELSE finnhubFetch_response(World(h), i, status, now), now))
    /\ UNCHANGED <<now, started, notGateway>>

\* The error body of a not-ok Finnhub response has been read.
ErrorBody(h, i, errorMessage) ==
    /\ req[h].f[i].st = "errbody"
    /\ Apply(h, Cont(finnhubFetch_errbody(World(h), i, errorMessage), now))
    /\ UNCHANGED <<now, started, notGateway>>

\* The body of an ok response has been read.
ReadBody(h, i, body) ==
    /\ req[h].f[i].st = "body"
    /\ Apply(h, Cont(IF req[h].provider = "fmp"
                     THEN fmpFetch_body(World(h), i, body)
                     ELSE finnhubFetch_body(World(h), i, body), now))
    /\ UNCHANGED <<now, started, notGateway>>

\* The operation has returned or thrown and none of its fetches is pending:
\* the handler is free for the next call.
Finish(h) ==
    /\ req[h].pc = "done"
    /\ req[h].f = <<FreeSlot, FreeSlot>>
    /\ req' = [req EXCEPT ![h] = Idle]
    /\ UNCHANGED <<now, cache, fmpRateLimiter, rateLimiter, issued, started, notGateway>>

TicksDone == getCurrentDate(now) + (now % DAY_MS) \div MINUTE_MS

\* The clock advances by a minute.
TickMinute ==
    /\ TicksDone < MaxTicks
    /\ now' = now + MINUTE_MS
    /\ UNCHANGED <<cache, fmpRateLimiter, rateLimiter, issued, req, started, notGateway>>

\* The clock advances to the next midnight (UTC).
TickDay ==
    /\ TicksDone < MaxTicks
    /\ now' = (getCurrentDate(now) + 1) * DAY_MS
    /\ UNCHANGED <<cache, fmpRateLimiter, rateLimiter, issued, req, started, notGateway>>

Next ==
    \/ \E h \in Handlers :
        \/ \E q \in Queries : Start(h, "search", q, "")
        \/ \E ticker \in Tickers : Start(h, "quote", ticker, "")
        \/ \E ticker \in Tickers : Start(h, "fundamentals", ticker, "")
        \/ \E ticker \in Tickers, range \in Ranges : Start(h, "history", ticker, range)
    \/ \E h \in Handlers, i \in 1..2, status \in Statuses : Response(h, i, status)
    \/ \E h \in Handlers, i \in 1..2, errorMessage \in ErrorMessages :
            ErrorBody(h, i, errorMessage)
    \/ \E h \in Handlers, i \in 1..2 :
        /\ req[h].f[i].st = "body"
        /\ \E body \in Bodies(req[h].provider, req[h].f[i].ep) : ReadBody(h, i, body)
    \/ \E h \in Handlers : Finish(h)
    \/ TickMinute
    \/ TickDay

Spec == Init /\ [][Next]_vars

----------------------------------------------------------------------------
(* Claims about the gateway.                                                *)

\* The operation of handler h runs from its call to its first await (or to
\* its return) in this step.
Called(h) == req[h].pc = "idle" /\ req'[h].pc # "idle"

\* The operation of handler h returns or throws in this step.
Completes(h) == req[h].pc # "done" /\ req'[h].pc = "done"

Live(m, k, t) == k \in DOMAIN m /\ ~(t > m[k].expiresAt)

Exhausted(provider) ==
    IF provider = "fmp"
    THEN ~RateLimiter_canMakeCall(fmpRateLimiter, now).ret
    ELSE ~FinnhubRateLimiter_canMakeCall(rateLimiter, now).ret

\* C4: in every reachable state, under all interleavings of the handlers
\* that go through fmpFetch, the stored count dailyCalls of the FMP limiter
\* is at most maxDailyCalls.
C4_CountWithinLimit == fmpRateLimiter.dailyCalls <= maxDailyCalls

\* C5: the number of upstream fetches issued within one limiter window never
\* exceeds the quota: 250 per day for FMP, 60 per trailing minute for
\* Finnhub.
C5_IssuedWithinQuota ==
    /\ issued.fmp.n <= maxDailyCalls
    /\ Len(issued.finnhub) <= maxCallsPerMinute

\* C6: recordCall is invoked exactly once for every fetch that was issued and
\* not otherwise: once an operation is over and none of its fetches is
\* pending, it has recorded as many calls as it has issued fetches, whether
\* they came back 2xx, came back non-2xx or failed on the network.
C6_RecordedOncePerFetch ==
    \A h \in Handlers :
        (req[h].pc = "done" /\ req[h].f = <<FreeSlot, FreeSlot>>)
            => req[h].recorded = req[h].sent

C8_Step ==
    \A h \in Handlers :
        (Called(h) /\ Live(cache, keyOf(req'[h]), now))
            => /\ req'[h].pc = "done"
               /\ req'[h].res = [status |-> "ok", value |-> cache[keyOf(req'[h])].data,
                                 error |-> NoError]
               /\ req'[h].sent = 0
               /\ req'[h].f = <<FreeSlot, FreeSlot>>
               /\ issued' = issued
               /\ fmpRateLimiter' = fmpRateLimiter
               /\ rateLimiter' = rateLimiter
               /\ cache' = cache

\* C8: an operation (search, quote, fundamentals, history; either provider)
\* called while an unexpired entry sits under its cache key returns that
\* entry's value at once, issues no fetch, and leaves both limiters (which a
\* canMakeCall would roll or prune) and every cache entry as they were; so
\* too with the limiter exhausted and with an empty list as the value.
C8_CacheHit == [][C8_Step]_vars

\* An empty list served from the cache while the limiter is exhausted.
C8_Witness ==
    \E h \in Handlers :
        /\ req[h].pc = "done"
        /\ req[h].sent = 0
        /\ req[h].res.status = "ok"
        /\ req[h].res.value = Arr(<<>>)
        /\ Live(cache, keyOf(req[h]), now)
        /\ cache[keyOf(req[h])].data = Arr(<<>>)
        /\ Exhausted(req[h].provider)

C9_Step ==
    \A h \in Handlers :
        (/\ Called(h)
         /\ ~(req'[h].op = "search" /\ trim(req'[h].arg) = "")
         /\ ~Live(cache, keyOf(req'[h]), now)
         /\ Exhausted(req'[h].provider))
            => /\ req'[h].pc = "done"
               /\ req'[h].res.status = "error"
               /\ req'[h].res.error.statusCode = 429
               /\ req'[h].res.error.isRateLimit
               /\ req'[h].sent = 0
               /\ issued' = issued
               /\ RateLimiter_getUsage(fmpRateLimiter', now).ret
                    = RateLimiter_getUsage(fmpRateLimiter, now).ret
               /\ FinnhubRateLimiter_getUsage(rateLimiter', now).ret
                    = FinnhubRateLimiter_getUsage(rateLimiter, now).ret
               /\ \A k \in DOMAIN cache' : k \in DOMAIN cache /\ cache'[k] = cache[k]
               /\ \A k \in DOMAIN cache : Live(cache, k, now) => k \in DOMAIN cache'

\* C9: an operation called on a cache miss with the limiter exhausted fails
\* with the quota error (status 429, isRateLimit) without issuing a fetch,
\* and leaves the usage of the limiter and the entries of the cache as they
\* were (an expired entry under its own key may go).
C9_QuotaExhausted == [][C9_Step]_vars

C10_Step ==
    \A h \in Handlers :
        (/\ Completes(h)
         /\ req'[h].op \in {"search", "history"}
         /\ req'[h].sent > 0
         /\ req'[h].res.status = "ok"
         /\ req'[h].res.value = Arr(<<>>))
            => /\ Live(cache', keyOf(req'[h]), now)
               /\ cache'[keyOf(req'[h])].data = Arr(<<>>)

\* C10: a search or history operation that went upstream and comes back with
\* an empty list has stored that list under its cache key, so that the same
\* request within the TTL is served from the cache.
C10_EmptyResultCached == [][C10_Step]_vars

----------------------------------------------------------------------------
(* SpecBatch: getBatchQuotes of the active provider, called by one handler  *)
(* at a time, the upstream answering and the clock advancing.               *)

MaxBatch == 2

BatchSymbols == {"AAPL", "MSFT"}

BatchTickers == UNION {[1..n -> BatchSymbols] : n \in 0..MaxBatch}

\* A handler calls getBatchQuotes(tickers) of the active provider.
BatchStart(h, tickers) ==
    /\ h = 1
    /\ req[h].pc = "idle"
    /\ started < MaxRequests
    /\ started' = started + 1
    /\ Apply(h, StartBatch([World(h) EXCEPT
                    !.r = NewRequest(activeProvider, "batchQuotes", tickers, "")], now))
    /\ UNCHANGED <<now, notGateway>>

NextBatch ==
    \/ \E h \in Handlers, tickers \in BatchTickers : BatchStart(h, tickers)
    \/ \E h \in Handlers, i \in 1..2, status \in Statuses : Response(h, i, status)
    \/ \E h \in Handlers, i \in 1..2, errorMessage \in ErrorMessages :
            ErrorBody(h, i, errorMessage)
    \/ \E h \in Handlers, i \in 1..2 :
        /\ req[h].f[i].st = "body"
        /\ \E body \in Bodies(req[h].provider, req[h].f[i].ep) : ReadBody(h, i, body)
    \/ \E h \in Handlers : Finish(h)
    \/ TickMinute

SpecBatch == Init /\ [][NextBatch]_vars

\* the number of tickers of the loop that went one of the ways in hows
Count(log, hows) == Cardinality({i \in 1..Len(log) : log[i] \in hows})

BatchDone(h) ==
    req[h].op = "batchQuotes" /\ req[h].pc = "done" /\ Len(req[h].arg) >= 1

\* A batch that is over: what it cost.
C11_Cost ==
    \A h \in Handlers :
        BatchDone(h) =>
            IF req[h].provider = "fmp"
            THEN /\ req[h].sent <= 1
                 /\ req[h].recorded <= req[h].sent
                 /\ req[h].res.status = "ok" => req[h].recorded = 1
                 /\ (req[h].sent = 1 /\ req[h].res.error.statusCode = 429)
                        => req[h].recorded = 1
            ELSE /\ Len(req[h].log) = Len(req[h].arg)
                 /\ req[h].recorded = Count(req[h].log, {"fetched", "noquote", "error"})
                 /\ req[h].sent = req[h].recorded + Count(req[h].log, {"network"})
                 /\ Len(req[h].res.value.items) = Count(req[h].log, {"hit", "fetched"})

\* A step of a Finnhub batch: one fetch at a time; a fetch is issued only for
\* a ticker that has no live cache entry and while the limiter has a slot;
\* a ticker that is fetched with success is in the cache afterwards.
C11_Step ==
    \A h \in Handlers :
        (req'[h].op = "batchQuotes" /\ req'[h].provider = "finnhub") =>
            /\ req'[h].f[2] = FreeSlot
            /\ req'[h].sent > (IF req[h].op = "batchQuotes" THEN req[h].sent ELSE 0)
                => /\ req'[h].sent = 1 + (IF req[h].op = "batchQuotes" THEN req[h].sent ELSE 0)
                   /\ ~Live(cache', cacheKey("finnhub", "quote", Head(req'[h].todo), ""), now)
                   /\ Len(FinnhubRateLimiter_cleanup(rateLimiter', now)) < maxCallsPerMinute
            /\ (req[h].op = "batchQuotes"
                    /\ Count(req'[h].log, {"fetched"}) > Count(req[h].log, {"fetched"}))
                => LET key == cacheKey("finnhub", "quote", Head(req[h].todo), "")
                   IN  /\ Live(cache', key, now)
                       /\ cache'[key].expiresAt = now + CACHE_TTL.QUOTE

----------------------------------------------------------------------------
(* SpecKeys: the cache keys the operations and the routes compute.  Here a  *)
(* string is the sequence of its characters, so that toUpperCase,           *)
(* toLowerCase, trim, sort and join are computed, character by character.   *)

MaxStringLen == 3
MaxListLen == 2

\* UTF-16 code units of the characters used
charCode(c) ==
    CASE c = " " -> 32 [] c = "1" -> 49 [] c = "A" -> 65 [] c = "B" -> 66
      [] c = "D" -> 68 [] c = "a" -> 97 [] c = "b" -> 98 [] c = "d" -> 100
      [] c = "," -> 44 [] c = "M" -> 77 [] c = "m" -> 109

upperChar(c) ==
    CASE c = "a" -> "A" [] c = "b" -> "B" [] c = "d" -> "D" [] c = "m" -> "M"
      [] OTHER -> c

lowerChar(c) ==
    CASE c = "A" -> "a" [] c = "B" -> "b" [] c = "D" -> "d" [] c = "M" -> "m"
      [] OTHER -> c

String_toUpperCase(str) == [i \in 1..Len(str) |-> upperChar(str[i])]

String_toLowerCase(str) == [i \in 1..Len(str) |-> lowerChar(str[i])]

\* trim(): the string without its leading and trailing white space
String_trim(str) ==
    LET Inked == {i \in 1..Len(str) : str[i] # " "}
        First == CHOOSE i \in Inked : \A j \in Inked : i <= j
        Last == CHOOSE i \in Inked : \A j \in Inked : j <= i
    IN  IF Inked = {} THEN <<>> ELSE SubSeq(str, First, Last)

\* a < b in the order of Array.prototype.sort() without a comparator
StringLess(a, b) ==
    \E n \in 1..(Len(a) + 1) :
        /\ \A i \in 1..(n - 1) : i <= Len(b) /\ a[i] = b[i]
        /\ \/ n = Len(a) + 1 /\ Len(b) >= n
           \/ n <= Len(a) /\ n <= Len(b) /\ charCode(a[n]) < charCode(b[n])

RECURSIVE Array_sort(_)
Array_sort(list) ==
    IF list = <<>> THEN <<>>
    ELSE LET i == CHOOSE i \in 1..Len(list) :
                    /\ \A j \in 1..Len(list) : ~StringLess(list[j], list[i])
                    /\ \A j \in 1..(i - 1) : list[j] # list[i]
             rest == [j \in 1..(Len(list) - 1) |-> IF j < i THEN list[j] ELSE list[j + 1]]
         IN  <<list[i]>> \o Array_sort(rest)

RECURSIVE Array_join(_)
Array_join(list) ==
    IF list = <<>> THEN <<>>
    ELSE IF Len(list) = 1 THEN list[1]
    ELSE list[1] \o <<",">> \o Array_join(Tail(list))

Array_slice(list, n) == IF Len(list) <= n THEN list ELSE SubSeq(list, 1, n)

\* `search:${query.toLowerCase().trim()}`, and so on: the key of each
\* operation, the constant parts as one element each
keyChars(provider, op, arg, range) ==
    LET prefix == IF provider = "finnhub" THEN <<"finnhub:">> ELSE <<>>
    IN  CASE op = "search" -> prefix \o <<"search:">> \o String_trim(String_toLowerCase(arg))
          [] op = "quote" -> prefix \o <<"quote:">> \o String_toUpperCase(arg)
          [] op = "fundamentals" -> prefix \o <<"fundamentals:">> \o String_toUpperCase(arg)
          [] op = "history" ->
                prefix \o <<"history:">> \o String_toUpperCase(arg) \o <<":">> \o range

VALID_RANGES == {<<"1", "D">>, <<"1", "M">>}

\* GET /api/stock/[ticker]/history: the key its Yahoo call reads and writes,
\* or the 400 it answers
historyRouteKey(ticker, param) ==
    LET range == String_toUpperCase(IF param = <<>> THEN <<"1", "M">> ELSE param)
    IN  IF range \notin VALID_RANGES
        THEN <<"400 Invalid range">>
        ELSE <<"yahoo:history:">> \o String_toUpperCase(String_toUpperCase(ticker))
                \o <<":">> \o range

WATCHLIST_LIMIT == 50

\* POST /api/watchlist/prices: tickers.slice(0, 50).map(toUpperCase), then
\* `watchlist:prices:${limitedTickers.sort().join(',')}`
watchlistKey(tickers) ==
    LET limitedTickers == [i \in 1..Len(Array_slice(tickers, WATCHLIST_LIMIT)) |->
                                String_toUpperCase(tickers[i])]
    IN  <<"watchlist:prices:">> \o Array_join(Array_sort(limitedTickers))

Strings(alphabet, n) == UNION {[1..k -> alphabet] : k \in 0..n}

TickerStrings == Strings({"a", "A", "b"}, MaxStringLen)
QueryStrings == Strings({"a", "A", " "}, MaxStringLen)
RangeStrings == Strings({"1", "d", "D", " "}, MaxStringLen)
HistoryTickers == {<<"a">>, <<"A">>}

\* lists of at most MaxListLen tickers, and two lists of one ticker more than
\* the route keeps
WatchLists ==
    Strings({<<"A">>, <<"a">>, <<"B">>}, MaxListLen)
        \cup {[i \in 1..(WATCHLIST_LIMIT + 1) |-> IF i = 1 THEN <<"B">> ELSE <<"A">>],
              [i \in 1..(WATCHLIST_LIMIT + 1) |->
                    IF i = WATCHLIST_LIMIT + 1 THEN <<"B">> ELSE <<"A">>]}

notKeys == <<now, cache, fmpRateLimiter, rateLimiter, env, activeProvider, req, lastSet,
             window, issued, started, analyze, macro, reasoning,
      apiCosts, rolled, watch>>

\* Two requests a and b of one kind: the keys they read and write.  One pair
\* is looked at in each behaviour.
Keys(kind, a, b, ka, kb) ==
    /\ last' = [op |-> "keys", kind |-> kind, a |-> a, b |-> b, ka |-> ka, kb |-> kb]
    /\ UNCHANGED notKeys

KeysOfTicker(provider, op, a, b) ==
    Keys("ticker", a, b, keyChars(provider, op, a, ""), keyChars(provider, op, b, ""))

KeysOfSearch(provider, a, b) ==
    Keys("search", a, b, keyChars(provider, "search", a, ""),
                         keyChars(provider, "search", b, ""))

\* getHistoricalPrices(ticker, range) of a provider; a and b are <<ticker, range>>
KeysOfHistory(provider, a, b) ==
    Keys("history", a, b, keyChars(provider, "history", a[1], a[2]),
                          keyChars(provider, "history", b[1], b[2]))

\* GET /api/stock/[ticker]/history?range=...; a and b are <<ticker, range>>
KeysOfHistoryRoute(a, b) ==
    Keys("history", a, b, historyRouteKey(a[1], a[2]), historyRouteKey(b[1], b[2]))

KeysOfWatchlist(a, b) == Keys("watchlist", a, b, watchlistKey(a), watchlistKey(b))

NextKeys ==
    \/ /\ last = NoCall
       /\ \E provider \in Providers, op \in {"quote", "fundamentals"}, a, b \in TickerStrings :
                KeysOfTicker(provider, op, a, b)
    \/ /\ last = NoCall
       /\ \E provider \in Providers, a, b \in QueryStrings : KeysOfSearch(provider, a, b)
    \/ /\ last = NoCall
       /\ \E provider \in Providers, a, b \in HistoryTickers \X RangeStrings :
                KeysOfHistory(provider, a, b)
    \/ /\ last = NoCall
       /\ \E a, b \in HistoryTickers \X RangeStrings : KeysOfHistoryRoute(a, b)
    \/ /\ last = NoCall
       /\ \E a, b \in WatchLists : KeysOfWatchlist(a, b)

SpecKeys == InitShared /\ [][NextKeys]_vars

\* a and b differ only in the case of their letters
SameButCase(a, b) ==
    /\ Len(a) = Len(b)
    /\ \A i \in 1..Len(a) : a[i] = b[i] \/ upperChar(a[i]) = b[i] \/ a[i] = upperChar(b[i])

\* the string without the white space at its two ends
Stripped(str) ==
    LET Inked == {i \in 1..Len(str) : str[i] # " "}
        lo == CHOOSE i \in Inked : \A j \in Inked : i <= j
        hi == CHOOSE i \in Inked : \A j \in Inked : j <= i
    IN  IF Inked = {} THEN <<>> ELSE [k \in 1..(hi - lo + 1) |-> str[lo + k - 1]]

\* a and b differ only in case and in the white space around them
SameButCaseAndSpace(a, b) == SameButCase(Stripped(a), Stripped(b))

Occurrences(list, x) == Cardinality({i \in 1..Len(list) : list[i] = x})

Permutation(a, b) ==
    /\ Len(a) = Len(b)
    /\ \A i \in 1..Len(a) : Occurrences(a, a[i]) = Occurrences(b, a[i])

SameRequest ==
    CASE last.kind = "ticker" -> SameButCase(last.a, last.b)
      [] last.kind = "search" -> SameButCaseAndSpace(last.a, last.b)
      [] last.kind = "history" ->
            SameButCase(last.a[1], last.b[1]) /\ SameButCaseAndSpace(last.a[2], last.b[2])
      [] last.kind = "watchlist" -> Permutation(last.a, last.b)

\* C12: two requests that mean the same (tickers that differ only in case,
\* queries or ranges that differ only in case or surrounding white space,
\* ticker lists that are permutations of each other) get the same cache key.
C12_SameKey == (last.op = "keys" /\ SameRequest) => last.ka = last.kb

----------------------------------------------------------------------------
(* SpecTtl: one handler calling the gateway operations with every kind of   *)
(* range, and the clock advancing to the instant an entry expires and to    *)
(* the millisecond after it.                                                *)

TtlRanges == {"1D", "1W", "1M"}

\* The clock advances to the expiry of an entry (d = 0) or just past it (d = 1).
TickToExpiry(key, d) ==
    /\ key \in DOMAIN cache
    /\ now < cache[key].expiresAt + d
    /\ now' = cache[key].expiresAt + d
    /\ UNCHANGED <<cache, fmpRateLimiter, rateLimiter, issued, req, started, notGateway>>

NextTtl ==
    \/ \E q \in Queries : Start(1, "search", q, "")
    \/ \E ticker \in Tickers : Start(1, "quote", ticker, "")
    \/ \E ticker \in Tickers : Start(1, "fundamentals", ticker, "")
    \/ \E ticker \in Tickers, range \in TtlRanges : Start(1, "history", ticker, range)
    \/ \E i \in 1..2, status \in Statuses : Response(1, i, status)
    \/ \E i \in 1..2, errorMessage \in ErrorMessages : ErrorBody(1, i, errorMessage)
    \/ \E i \in 1..2 :
        /\ req[1].f[i].st = "body"
        /\ \E body \in Bodies(req[1].provider, req[1].f[i].ep) : ReadBody(1, i, body)
    \/ Finish(1)
    \/ TickMinute
    \/ \E key \in DOMAIN cache, d \in {0, 1} : TickToExpiry(key, d)

SpecTtl == Init /\ [][NextTtl]_vars

\* The durations the entries are to live, in milliseconds.
C13_Duration(op, range) ==
    CASE op = "search" -> 300000
      [] op = "quote" -> 120000
      [] op = "fundamentals" -> 3600000
      [] op = "history" /\ range \in {"1D", "1W"} -> 900000
      [] op = "history" -> 86400000

\* The operation of the handler comes back with a result it fetched.
C13_Fetched == req[1].pc \notin {"idle", "done"} /\ req'[1].pc = "done" /\ req'[1].res.status = "ok"

C13_Step ==
    LET r == req'[1]
        k == keyOf(r)
    IN  /\ C13_Fetched => k \in DOMAIN cache'
        /\ (C13_Fetched /\ k \in DOMAIN cache') =>
                cache'[k] = CacheEntry(r.res.value, now + C13_Duration(r.op, r.range))
        /\ (req[1].pc = "idle" /\ r.pc # "idle" /\ k \in DOMAIN cache) =>
                IF now <= cache[k].expiresAt
                THEN /\ r.pc = "done" /\ r.res.status = "ok" /\ r.sent = 0
                     /\ r.res.value = cache[k].data
                     /\ cache' = cache
                ELSE /\ ~(r.pc = "done" /\ r.res.status = "ok")
                     /\ k \notin DOMAIN cache'

\* C13: a result fetched on a miss is stored under the key of the operation
\* for 5 min (search), 2 min (quote), 1 h (fundamentals), 15 min (history
\* 1D, 1W) or 24 h (history, other ranges) from the instant it is stored; a
\* later call is answered with it while no more than that has elapsed, and
\* finds it gone after.
C13_OperationTtl == [][C13_Step]_vars

----------------------------------------------------------------------------
(* POST /api/analyze (src/app/api/stock/search/route.ts): the handler that  *)
(* serves an analysis from the cache or asks the reasoning service for a    *)
(* new one.  It calls getQuote and getFundamentals of src/lib/finnhub.ts,   *)
(* whose pieces are the ones of the gateway above; the pieces of the        *)
(* handler run in the same step as the piece of the operation they await.   *)
(* An intermediate state is bound as the one element of a set where it is   *)
(* used several times, so that it is computed once.                         *)

analysisKey(upperTicker) == "analysis:" \o upperTicker

\* StockAnalysis; call is history: the number of the reasoning call that
\* produced it.
StockAnalysis(ticker, timestamp, call) ==
    [kind |-> "object", ticker |-> ticker, timestamp |-> timestamp, call |-> call]

CachedAnalysis(analysis, priceAtAnalysis) ==
    [kind |-> "object", analysis |-> analysis, priceAtAnalysis |-> priceAtAnalysis]

\* Variant that is wrong on purpose: without Math.abs, only a fall counts.
shouldInvalidateCache_signed(cached, currentPrice) ==
    (cached.priceAtAnalysis - currentPrice) * 100 > 5 * cached.priceAtAnalysis

\* Variant that is wrong on purpose: a move of exactly 5% invalidates.
shouldInvalidateCache_from5(cached, currentPrice) ==
    LET priceDiff == IF currentPrice >= cached.priceAtAnalysis
                     THEN currentPrice - cached.priceAtAnalysis
                     ELSE cached.priceAtAnalysis - currentPrice
    IN  priceDiff * 100 >= 5 * cached.priceAtAnalysis

\* percentChange = (|currentPrice - priceAtAnalysis| / priceAtAnalysis) * 100;
\* return percentChange > 5.  priceAtAnalysis is positive (getQuote throws
\* on a price of 0), so the comparison is the one of the products.
shouldInvalidateCache(cached, currentPrice) ==
    LET priceDiff == IF currentPrice >= cached.priceAtAnalysis
                     THEN currentPrice - cached.priceAtAnalysis
                     ELSE cached.priceAtAnalysis - currentPrice
    IN  priceDiff * 100 > 5 * cached.priceAtAnalysis

NoResponse == [status |-> 0, code |-> "", cached |-> FALSE, analysis |-> Null]

AnalyzeIdle ==
    [pc |-> "idle", ticker |-> "", forceRefresh |-> FALSE, quote |-> Null, call |-> 0,
     res |-> NoResponse]

\* the handler with its locals, the gateway state it works on, and the
\* history of reasoning calls
AWorld(h) == [w |-> World(h), a |-> analyze[h], calls |-> reasoning]

AApply(h, x) ==
    /\ Apply(h, x.w)
    /\ analyze' = [analyze EXCEPT ![h] = x.a]
    /\ reasoning' = x.calls

\* return NextResponse.json(...)
Respond(x, status, code, cached, analysis) ==
    [x EXCEPT !.a.pc = "done",
              !.a.res = [status |-> status, code |-> code, cached |-> cached,
                         analysis |-> analysis],
              !.w.r = Idle]

\* analyzeStock(upperTicker, quote, fundamentals) up to its await of
\* client.messages.create
analyzeStock_begin(x, t) ==
    [x EXCEPT !.a.pc = "reasoning",
              !.a.call = Len(x.calls) + 1,
              !.w.r = Idle,
              !.calls = Append(@, [price |-> x.a.quote.price, macro |-> 0])]

\* Variant that is wrong on purpose: the record is stored with the price of
\* the quote the quote cache holds when the reasoning call settles.
analyzeStock_done_requote(x, outcome, t, vix) ==
    LET key == analysisKey(x.a.ticker)
        quoteKey == cacheKey("finnhub", "quote", x.a.ticker, "")
        price == IF quoteKey \in DOMAIN x.w.cache
                 THEN x.w.cache[quoteKey].data.price
                 ELSE x.a.quote.price
        analysis == StockAnalysis(x.a.ticker, t, x.a.call)
        x1 == [x EXCEPT !.calls[x.a.call].macro = IF outcome = "ok" THEN vix ELSE 0]
    IN  CASE outcome = "ok" ->
                Respond([x1 EXCEPT !.w.cache =
                            MemoryCache_set(@, key, CachedAnalysis(analysis, price),
                                            CACHE_TTL.ANALYSIS, t)],
                        200, "", FALSE, analysis)
          [] outcome = "401" -> Respond(x1, 401, "AUTH_ERROR", FALSE, Null)
          [] outcome = "429" -> Respond(x1, 429, "RATE_LIMIT", FALSE, Null)
          [] OTHER -> Respond(x1, 500, "ANALYSIS_ERROR", FALSE, Null)

\* Variant that is wrong on purpose: the catch of a failed reasoning call
\* drops the record of the ticker.
analyzeStock_done_evict(x, outcome, t, vix) ==
    LET key == analysisKey(x.a.ticker)
        analysis == StockAnalysis(x.a.ticker, t, x.a.call)
        x1 == [x EXCEPT !.calls[x.a.call].macro = IF outcome = "ok" THEN vix ELSE 0]
        x2 == [x1 EXCEPT !.w.cache = MemoryCache_delete(@, key)]
    IN  CASE outcome = "ok" ->
                Respond([x1 EXCEPT !.w.cache =
                            MemoryCache_set(@, key, CachedAnalysis(analysis, x.a.quote.price),
                                            CACHE_TTL.ANALYSIS, t)],
                        200, "", FALSE, analysis)
          [] outcome = "401" -> Respond(x2, 401, "AUTH_ERROR", FALSE, Null)
          [] outcome = "429" -> Respond(x2, 429, "RATE_LIMIT", FALSE, Null)
          [] OTHER -> Respond(x2, 500, "ANALYSIS_ERROR", FALSE, Null)

\* The reasoning call settles: analyzeStock returns the analysis, stamped
\* with the instant it was parsed, or throws; the handler stores and
\* answers, or its catch maps the error to the response.  vix, the
\* volatility index at that instant, goes to the history only.
analyzeStock_done(x, outcome, t, vix) ==
    LET key == analysisKey(x.a.ticker)
        analysis == StockAnalysis(x.a.ticker, t, x.a.call)
        x1 == [x EXCEPT !.calls[x.a.call].macro = IF outcome = "ok" THEN vix ELSE 0]
    IN  CASE outcome = "ok" ->
                Respond([x1 EXCEPT !.w.cache =
                            MemoryCache_set(@, key, CachedAnalysis(analysis, x.a.quote.price),
                                            CACHE_TTL.ANALYSIS, t)],
                        200, "", FALSE, analysis)
          [] outcome = "401" -> Respond(x1, 401, "AUTH_ERROR", FALSE, Null)
          [] outcome = "429" -> Respond(x1, 429, "RATE_LIMIT", FALSE, Null)
          [] OTHER -> Respond(x1, 500, "ANALYSIS_ERROR", FALSE, Null)

\* getFundamentals has settled: its error is swallowed, analyzeStock is called
AfterFundamentals(x, t) == analyzeStock_begin(x, t)

\* fundamentals = await getFundamentals(upperTicker)
CallFundamentals(x, t) ==
    LET w1 == StartOp([x.w EXCEPT !.r = NewRequest("finnhub", "fundamentals", x.a.ticker, "")], t)
    IN  CHOOSE y \in {IF x1.w.r.pc = "done" THEN AfterFundamentals(x1, t) ELSE x1 :
                        x1 \in {[x EXCEPT !.w = w1, !.a.pc = "fundamentals"]}} : TRUE

\* Variant that is wrong on purpose: a failed quote falls back on the cache.
AfterQuote_fallback(x, t) ==
    LET r == x.w.r
        key == analysisKey(x.a.ticker)
        g == MemoryCache_get(x.w.cache, key, t)
    IN  IF r.res.status = "error"
        THEN IF Truthy(g.ret)
             THEN Respond(x, 200, "", TRUE, g.ret.analysis)
             ELSE Respond(x, 500, "QUOTE_ERROR", FALSE, Null)
        ELSE LET quote == r.res.value
                 x1 == [x EXCEPT !.a.quote = quote, !.w.r = Idle]
                 x2 == [x1 EXCEPT !.w.cache = g.cache]
             IN  IF ~x.a.forceRefresh /\ Truthy(g.ret) /\ ~shouldInvalidateCache(g.ret, quote.price)
                 THEN Respond(x2, 200, "", TRUE, g.ret.analysis)
                 ELSE CallFundamentals(
                        IF x.a.forceRefresh THEN x1
                        ELSE IF ~Truthy(g.ret) THEN x2
                        ELSE [x2 EXCEPT !.w.cache = MemoryCache_delete(@, key)], t)

\* Variant that is wrong on purpose: forceRefresh is ignored.
AfterQuote_noforce(x, t) ==
    LET r == x.w.r
        key == analysisKey(x.a.ticker)
        g == MemoryCache_get(x.w.cache, key, t)
    IN  IF r.res.status = "error"
        THEN Respond(x, 500, "QUOTE_ERROR", FALSE, Null)
        ELSE LET quote == r.res.value
                 x1 == [x EXCEPT !.a.quote = quote, !.w.r = Idle]
                 x2 == [x1 EXCEPT !.w.cache = g.cache]
             IN  IF ~Truthy(g.ret)
                 THEN CallFundamentals(x2, t)
                 ELSE IF ~shouldInvalidateCache(g.ret, quote.price)
                 THEN Respond(x2, 200, "", TRUE, g.ret.analysis)
                 ELSE CallFundamentals([x2 EXCEPT !.w.cache = MemoryCache_delete(@, key)], t)

\* getQuote has settled: QUOTE_ERROR if it threw; else the cache check
\* unless forceRefresh, the eviction on a price move, and on to the
\* fundamentals.
AfterQuote(x, t) ==
    LET r == x.w.r
        key == analysisKey(x.a.ticker)
        g == MemoryCache_get(x.w.cache, key, t)
    IN  IF r.res.status = "error"
        THEN Respond(x, 500, "QUOTE_ERROR", FALSE, Null)
        ELSE LET quote == r.res.value
                 x1 == [x EXCEPT !.a.quote = quote, !.w.r = Idle]
                 x2 == [x1 EXCEPT !.w.cache = g.cache]
             IN  IF ~x.a.forceRefresh /\ Truthy(g.ret) /\ ~shouldInvalidateCache(g.ret, quote.price)
                 THEN Respond(x2, 200, "", TRUE, g.ret.analysis)
                 ELSE CallFundamentals(
                        IF x.a.forceRefresh THEN x1
                        ELSE IF ~Truthy(g.ret) THEN x2
                        ELSE [x2 EXCEPT !.w.cache = MemoryCache_delete(@, key)], t)

\* POST: the handler from the parsed body to its first pending await
POST_analyze(x, ticker, forceRefresh, t) ==
    LET upperTicker == toUpperCase(ticker)
        x0 == [x EXCEPT !.a = [AnalyzeIdle EXCEPT !.pc = "quote", !.ticker = upperTicker,
                                                  !.forceRefresh = forceRefresh]]
    IN  IF ticker = ""
        THEN Respond(x0, 400, "", FALSE, Null)
        ELSE IF "ANTHROPIC_API_KEY" \notin env
        THEN Respond(x0, 500, "CONFIG_ERROR", FALSE, Null)
        ELSE LET w1 == StartOp([x.w EXCEPT !.r = NewRequest("finnhub", "quote", upperTicker, "")], t)
             IN  CHOOSE y \in {IF x1.w.r.pc = "done" THEN AfterQuote(x1, t) ELSE x1 :
                                x1 \in {[x0 EXCEPT !.w = w1]}} : TRUE

\* The handler goes on when the operation it awaits has settled.
AnalyzeCont(x, t) ==
    IF x.w.r.pc # "done"
    THEN x
    ELSE CASE x.a.pc = "quote" -> AfterQuote(x, t)
           [] x.a.pc = "fundamentals" -> AfterFundamentals(x, t)
           [] OTHER -> x

----------------------------------------------------------------------------
(* SpecAnalyze: one handler of POST /api/analyze, Finnhub answering, the    *)
(* reasoning service answering, the clock and the market moving.            *)

MaxAnalyze == 3
AnalyzeMaxTime == 180000

AnalyzeTickers == {"", "AAPL"}
AnalyzePrices == {0, 100, 105, 106}
MacroLevels == {16, 20}
Outcomes == {"ok", "401", "429", "error"}

\* what Finnhub may answer to the handler's getQuote and getFundamentals
AnalyzeStatuses(op) == IF op = "quote" THEN {200, 429} ELSE {200}

AnalyzeBodies(op, ep) ==
    CASE op = "quote" -> {Body("json", [kind |-> "object", c |-> p]) : p \in AnalyzePrices}
      [] ep = "quote" -> {Body("json", [kind |-> "object", c |-> 100])}
      [] OTHER -> {Body("json", [kind |-> "object", name |-> "Apple Inc", ticker |-> "AAPL",
                                 finnhubIndustry |-> "Technology", marketCapitalization |-> 2000])}

InitAnalyze ==
    /\ now = 0
    /\ cache = EmptyMap
    /\ env \in {AllKeys \cup {"ANTHROPIC_API_KEY"}, {"ANTHROPIC_API_KEY"}, AllKeys}
    /\ activeProvider = "finnhub"
    /\ fmpRateLimiter = [dailyCalls |-> 0, date |-> getCurrentDate(0)]
    /\ \E k \in 0..Headroom :
        LET usedFinnhub == IF k = 0 THEN 0 ELSE maxCallsPerMinute - k
        IN  /\ rateLimiter = [i \in 1..usedFinnhub |-> 0]
            /\ issued = [fmp |-> [day |-> getCurrentDate(0), n |-> 0],
                         finnhub |-> [i \in 1..usedFinnhub |-> 0]]
    /\ req = [h \in Handlers |-> Idle]
    /\ last = NoCall
    /\ lastSet = EmptyMap
    /\ window = [day |-> getCurrentDate(0), calls |-> 0]
    /\ started = 0
    /\ analyze = [h \in Handlers |-> AnalyzeIdle]
    /\ macro = 16
    /\ reasoning = <<>>
    /\ apiCosts = ApiCostsDefault(0)
    /\ rolled = {}
    /\ watch = WatchIdle

notAnalyze == <<env, activeProvider, last, lastSet, window, apiCosts, rolled, watch>>

\* A request arrives; the first idle handler takes it.
AnalyzePost(h, ticker, forceRefresh) ==
    /\ analyze[h].pc = "idle"
    /\ \A g \in Handlers : g < h => analyze[g].pc # "idle"
    /\ started < MaxAnalyze
    /\ started' = started + 1
    /\ \E x \in {POST_analyze(AWorld(h), ticker, forceRefresh, now)} : AApply(h, x)
    /\ UNCHANGED <<now, macro, notAnalyze>>

\* The fetch of slot i settles with an HTTP status (0: the fetch rejects).
AnalyzeResponse(h, i, status) ==
    /\ req[h].f[i].st = "inflight"
    /\ \E x \in {[AWorld(h) EXCEPT !.w =
                        Cont(finnhubFetch_response(World(h), i, status, now), now)]} :
       \E y \in {AnalyzeCont(x, now)} : AApply(h, y)
    /\ UNCHANGED <<now, started, macro, notAnalyze>>

AnalyzeErrorBody(h, i, errorMessage) ==
    /\ req[h].f[i].st = "errbody"
    /\ \E x \in {[AWorld(h) EXCEPT !.w =
                        Cont(finnhubFetch_errbody(World(h), i, errorMessage), now)]} :
       \E y \in {AnalyzeCont(x, now)} : AApply(h, y)
    /\ UNCHANGED <<now, started, macro, notAnalyze>>

AnalyzeReadBody(h, i, body) ==
    /\ req[h].f[i].st = "body"
    /\ \E x \in {[AWorld(h) EXCEPT !.w = Cont(finnhubFetch_body(World(h), i, body), now)]} :
       \E y \in {AnalyzeCont(x, now)} : AApply(h, y)
    /\ UNCHANGED <<now, started, macro, notAnalyze>>

\* The reasoning call of handler h settles.
ReasoningDone(h, outcome) ==
    /\ analyze[h].pc = "reasoning"
    /\ \E x \in {analyzeStock_done(AWorld(h), outcome, now, macro)} : AApply(h, x)
    /\ UNCHANGED <<now, started, macro, notAnalyze>>

\* The response has been sent; the handler is free for the next request.
AnalyzeFinish(h) ==
    /\ analyze[h].pc = "done"
    /\ analyze' = [analyze EXCEPT ![h] = AnalyzeIdle]
    /\ UNCHANGED <<now, cache, fmpRateLimiter, rateLimiter, issued, req, started, macro,
                   reasoning, notAnalyze>>

notClock == <<cache, fmpRateLimiter, rateLimiter, issued, req, started, analyze, macro,
              reasoning, notAnalyze>>

\* The clock advances by three minutes, past the life of a cached quote.
AnalyzeTick ==
    /\ now + 3 * MINUTE_MS <= AnalyzeMaxTime
    /\ now' = now + 3 * MINUTE_MS
    /\ UNCHANGED notClock

\* The clock advances to the expiry of an analysis (d = 0) or just past it.
AnalyzeTickToExpiry(ticker, d) ==
    /\ analysisKey(ticker) \in DOMAIN cache
    /\ now < cache[analysisKey(ticker)].expiresAt + d
    /\ now' = cache[analysisKey(ticker)].expiresAt + d
    /\ UNCHANGED notClock

\* The volatility index moves while an analysis is cached.
MacroMove(vix) ==
    /\ \E ticker \in AnalyzeTickers : analysisKey(ticker) \in DOMAIN cache
    /\ vix > macro
    /\ macro' = vix
    /\ UNCHANGED <<now, cache, fmpRateLimiter, rateLimiter, issued, req, started, analyze,
                   reasoning, notAnalyze>>

AnalyzeStep(h) ==
    \/ \E ticker \in AnalyzeTickers, forceRefresh \in BOOLEAN : AnalyzePost(h, ticker, forceRefresh)
    \/ \E i \in 1..2 :
        /\ req[h].f[i].st = "inflight"
        /\ \E status \in AnalyzeStatuses(req[h].op) : AnalyzeResponse(h, i, status)
    \/ \E i \in 1..2, errorMessage \in ErrorMessages : AnalyzeErrorBody(h, i, errorMessage)
    \/ \E i \in 1..2 :
        /\ req[h].f[i].st = "body"
        /\ \E body \in AnalyzeBodies(req[h].op, req[h].f[i].ep) : AnalyzeReadBody(h, i, body)
    \/ \E outcome \in Outcomes : ReasoningDone(h, outcome)
    \/ AnalyzeFinish(h)

NextAnalyze ==
    \/ AnalyzeStep(1)
    \/ AnalyzeTick
    \/ \E d \in {0, 1} : AnalyzeTickToExpiry("AAPL", d)
    \/ \E vix \in MacroLevels : MacroMove(vix)

SpecAnalyze == InitAnalyze /\ [][NextAnalyze]_vars

----------------------------------------------------------------------------
(* Claims about POST /api/analyze.                                          *)

\* The handler has just obtained the quote: this step holds its cache check.
QuoteObtained(h) == analyze[h].quote = Null /\ analyze'[h].quote # Null

\* A record of the ticker of handler h is in the cache and has not expired.
LiveRecord(h) ==
    /\ analysisKey(analyze'[h].ticker) \in DOMAIN cache
    /\ now <= cache[analysisKey(analyze'[h].ticker)].expiresAt

\* The response of handler h is the cached analysis.
ServedFromCache(h) == analyze'[h].pc = "done" /\ analyze'[h].res.cached

\* Handler h is on its way to a reasoning call, or has made it.
Regenerating(h) ==
    \/ analyze'[h].pc = "fundamentals" /\ reasoning' = reasoning
    \/ analyze'[h].pc = "reasoning" /\ Len(reasoning') = Len(reasoning) + 1

\* |c - p| / p <= 0.05
C14_Within5(p, c) == IF c >= p THEN (c - p) * 20 <= p ELSE (p - c) * 20 <= p

C14_Step ==
    LET a == analyze'[1]
        record == cache[analysisKey(a.ticker)]
    IN  /\ (QuoteObtained(1) /\ ~a.forceRefresh /\ LiveRecord(1)) =>
                IF C14_Within5(record.data.priceAtAnalysis, a.quote.price)
                THEN /\ ServedFromCache(1)
                     /\ a.res.analysis = record.data.analysis
                     /\ reasoning' = reasoning
                ELSE /\ ~ServedFromCache(1)
                     /\ Regenerating(1)
        /\ (analyze[1].pc = "fundamentals" /\ a.pc # "fundamentals") =>
                (a.pc = "reasoning" /\ Len(reasoning') = Len(reasoning) + 1)

\* C14: a cached analysis inside its TTL is served when the current price is
\* within 5% of the price it was generated at, up or down, 5% included, and
\* is not served otherwise: the handler goes on to a new reasoning call.
C14_PriceDrift == [][C14_Step]_vars

\* a record generated at 100 served at a current price of 105
C14_Witness ==
    /\ analyze[1].pc = "done" /\ analyze[1].res.cached
    /\ analyze[1].quote.price = 105
    /\ cache[analysisKey("AAPL")].data.priceAtAnalysis = 100

\* The response handler h gives in this step is the cached analysis.
ServesFromCache(h) == analyze[h].pc # "done" /\ ServedFromCache(h)

C15_Step ==
    ServesFromCache(1) => now - analyze'[1].res.analysis.timestamp < 6 * 60 * 60 * 1000

\* C15: an analysis generated 6 hours ago or earlier is never served, even
\* at an unchanged price.
C15_TtlAlone == [][C15_Step]_vars

\* The reasoning call that produced the analysis handler h answers with.
GeneratedBy(h) == reasoning[analyze'[h].res.analysis.call]

C16_Step ==
    (ServesFromCache(1) /\ macro > GeneratedBy(1).macro)
        => macro - GeneratedBy(1).macro <= 3

\* C16: a cached analysis is not served when the volatility index has moved
\* by more than 3 points since the analysis was generated.
C16_MacroTrigger == [][C16_Step]_vars

\* In this step the getQuote of handler h has failed: the handler is past
\* its await without a quote.
QuoteFailed(h) ==
    /\ analyze[h].pc \in {"idle", "quote"}
    /\ analyze'[h].pc \notin {"idle", "quote"}
    /\ analyze'[h].ticker # ""
    /\ "ANTHROPIC_API_KEY" \in env
    /\ analyze'[h].quote = Null

C17_Step ==
    QuoteFailed(1) =>
        /\ analyze'[1].pc = "done"
        /\ analyze'[1].res.status >= 400
        /\ ~analyze'[1].res.cached
        /\ analyze'[1].res.analysis = Null
        /\ reasoning' = reasoning

\* C17: when the quote cannot be fetched the handler answers with an error,
\* never with the cached analysis, and makes no reasoning call, whatever the
\* cache holds and whether or not forceRefresh is set.
C17_FailClosed == [][C17_Step]_vars

\* the quote failed while a live analysis was in the cache, for a request
\* without forceRefresh
C17_Witness ==
    /\ analyze[1].pc = "done" /\ analyze[1].res.code = "QUOTE_ERROR"
    /\ ~analyze[1].forceRefresh
    /\ analysisKey("AAPL") \in DOMAIN cache
    /\ now <= cache[analysisKey("AAPL")].expiresAt

\* The validity conditions of the record in the cache, at the instant and
\* the price of the check of handler h: age under 6 hours, price within 5%,
\* volatility index within 3 points of its level at generation.
C18_Fresh(h) ==
    now - cache[analysisKey(analyze'[h].ticker)].data.analysis.timestamp < 6 * 60 * 60 * 1000

C18_PriceHeld(h) ==
    C14_Within5(cache[analysisKey(analyze'[h].ticker)].data.priceAtAnalysis,
                analyze'[h].quote.price)

C18_MacroHeld(h) ==
    LET then == reasoning[cache[analysisKey(analyze'[h].ticker)].data.analysis.call].macro
    IN  macro - then <= 3 /\ then - macro <= 3

C18_Step ==
    LET a == analyze'[1]
        key == analysisKey(a.ticker)
    IN  /\ (/\ QuoteObtained(1) /\ ~a.forceRefresh /\ key \in DOMAIN cache
            /\ ~(C18_Fresh(1) /\ C18_PriceHeld(1) /\ C18_MacroHeld(1))) =>
                /\ ~ServedFromCache(1)
                /\ key \notin DOMAIN cache'
                /\ Regenerating(1)
        /\ ServesFromCache(1) =>
                (key \in DOMAIN cache' /\ a.res.analysis = cache'[key].data.analysis)
        /\ (analyze[1].pc = "reasoning" /\ a.pc = "done" /\ ~a.forceRefresh) =>
                /\ ~a.res.cached
                /\ a.res.status = 200 => a.res.analysis.call = Len(reasoning)
                /\ a.res.status # 200 => key \notin DOMAIN cache'

\* C18: a cached record that fails a validity condition is evicted and not
\* served; that request is answered from a new reasoning call, and if the
\* call fails the record stays evicted, so no later request is served it.
C18_EvictOnInvalid == [][C18_Step]_vars

\* The request of handler h ends in this step.
Ends(h) == analyze[h].pc \notin {"idle", "done"} /\ analyze'[h].pc = "done"

C19_EveryRequest ==
    (/\ analyze[1].pc # "done" /\ analyze'[1].pc = "done"
     /\ analyze'[1].forceRefresh /\ analyze'[1].ticker # "" /\ "ANTHROPIC_API_KEY" \in env) =>
        (~analyze'[1].res.cached /\ analyze'[1].call > 0)

\* C19, as stated: a request with forceRefresh never returns the cached
\* record and always makes a reasoning call.
C19_AlwaysReasoning == [][C19_EveryRequest]_vars

C19_Step ==
    LET a == analyze'[1]
        key == analysisKey(a.ticker)
    IN  /\ (QuoteObtained(1) /\ a.forceRefresh) => (~ServedFromCache(1) /\ Regenerating(1))
        /\ (analyze[1].pc = "fundamentals" /\ a.pc # "fundamentals" /\ a.forceRefresh) =>
                (a.pc = "reasoning" /\ Len(reasoning') = Len(reasoning) + 1)
        /\ (analyze[1].pc # "done" /\ a.pc = "done" /\ a.forceRefresh) => ~a.res.cached
        /\ (Ends(1) /\ a.forceRefresh /\ a.res.status = 200) =>
                /\ a.res.analysis.call = Len(reasoning) /\ a.call = Len(reasoning)
                /\ key \in DOMAIN cache'
                /\ cache'[key] = CacheEntry(CachedAnalysis(a.res.analysis, a.quote.price),
                                            now + 6 * 60 * 60 * 1000)

\* C19, amended: a request with forceRefresh whose quote has been fetched
\* is never answered with the cached record, whatever the cache holds; it
\* goes on to a reasoning call, and when the call succeeds the response has
\* cached = false and the cache holds the new record.
C19_ForceRefresh == [][C19_Step]_vars

\* a second analysis forced at instant 0, while the first, of the same
\* instant and price, was in the cache
C19_Witness ==
    /\ analyze[1].pc = "done" /\ analyze[1].forceRefresh
    /\ analyze[1].res.status = 200
    /\ analyze[1].res.analysis.call = 2
    /\ reasoning[1].macro # 0
    /\ reasoning[1].price = reasoning[2].price
    /\ now = 0

----------------------------------------------------------------------------
(* SpecConcurrent: two handlers of POST /api/analyze at once, on the same   *)
(* ticker, with the quote changing between their calls.                     *)

ConcurrentPost(h, forceRefresh) ==
    /\ started < MaxRequests
    /\ AnalyzePost(h, "AAPL", forceRefresh)

ConcurrentStep(h) ==
    \/ \E forceRefresh \in BOOLEAN : ConcurrentPost(h, forceRefresh)
    \/ \E i \in 1..2 :
        /\ req[h].f[i].st = "inflight"
        /\ AnalyzeResponse(h, i, 200)
    \/ \E i \in 1..2 :
        /\ req[h].f[i].st = "body"
        /\ \E body \in AnalyzeBodies(req[h].op, req[h].f[i].ep) : AnalyzeReadBody(h, i, body)
    \/ \E outcome \in {"ok", "error"} : ReasoningDone(h, outcome)
    \/ AnalyzeFinish(h)

NextConcurrent ==
    \/ \E h \in Handlers : ConcurrentStep(h)
    \/ AnalyzeTick

InitConcurrent ==
    /\ InitAnalyze
    /\ env = AllKeys \cup {"ANTHROPIC_API_KEY"}
    /\ rateLimiter = <<>>

SpecConcurrent == InitConcurrent /\ [][NextConcurrent]_vars

\* C20: the analysis entry of a ticker is always a whole record whose
\* priceAtAnalysis is the price of the quote given to the reasoning call
\* that produced its analysis; every write of the entry replaces both
\* fields together by those of one call.
C20_RecordWhole ==
    \A key \in DOMAIN cache :
        (\E ticker \in AnalyzeTickers : key = analysisKey(ticker)) =>
            /\ DOMAIN cache[key].data = {"kind", "analysis", "priceAtAnalysis"}
            /\ cache[key].data.analysis.call \in 1..Len(reasoning)
            /\ cache[key].data.priceAtAnalysis = reasoning[cache[key].data.analysis.call].price

\* the entry holds the analysis of the first call, at its price, after a
\* second call was given a quote at another price
C20_Witness ==
    /\ analysisKey("AAPL") \in DOMAIN cache
    /\ Len(reasoning) = 2
    /\ reasoning[1].price # reasoning[2].price
    /\ cache[analysisKey("AAPL")].data.analysis.call = 1
    /\ analyze[1].pc = "done" /\ analyze[2].pc = "done"

----------------------------------------------------------------------------
(* Degradation of the gateway on failure (SpecTtl: entries that have        *)
(* outlived their TTL are still in the map until the next get).             *)

\* A value was stored earlier under the key of the operation of handler 1
\* and is still in the map, expired or not.
PriorValue(r) == keyOf(r) \in DOMAIN cache

C21_Step ==
    LET r == req'[1]
        k == keyOf(r)
    IN  /\ (req[1].pc = "idle" /\ r.pc = "done" /\ PriorValue(r)) =>
                /\ r.res.status = "ok"
                /\ r.res.value = cache[k].data
        /\ (req[1].pc = "idle" /\ r.pc \notin {"idle", "done"} /\ PriorValue(r)) =>
                /\ k \in DOMAIN cache'
                /\ cache'[k].data = cache[k].data
        /\ (req[1].pc \notin {"idle", "done"} /\ r.pc = "done" /\ PriorValue(r)) =>
                /\ r.res.status = "ok"
                /\ r.res.value # cache'[k].data => r.res.value = cache[k].data

\* C21: an operation that meets an exhausted quota or a failing upstream
\* while a value stored earlier under its key exists, expired or not, does
\* not fail: it returns that value.  (At its call the operation returns the
\* prior value if it returns at once; if it goes upstream the prior value is
\* kept meanwhile, and when the operation is over it has returned the fresh
\* value or the prior one.)
C21_StaleOnFailure == [][C21_Step]_vars

----------------------------------------------------------------------------
(* SpecFilter: applyQualityFilters (src/lib/market-data.ts) called once on  *)
(* a list of stocks with a configuration.                                   *)

MaxStocks == 2

\* stocks on either side of each default threshold; avgVolume and volume
\* may be undefined (<<>>), and avgVolume may be 0
FilterStocks ==
    {Stock("AAPL", price, marketCap, "Technology", exchange, v[1], v[2]) :
        price \in {4, 5}, marketCap \in {499999999, 500000000},
        exchange \in {"NYSE", "OTC"},
        v \in {<< <<>>, <<>> >>, << <<500000>>, <<>> >>,
               << <<500000>>, <<0>> >>, << <<>>, <<500000>> >>}}

FilterLists == UNION {[1..n -> FilterStocks] : n \in 0..MaxStocks}

FilterConfigs ==
    {DEFAULT_QUALITY_FILTERS,
     [DEFAULT_QUALITY_FILTERS EXCEPT !.minPrice = 4, !.allowedExchanges = {"OTC"}],
     [DEFAULT_QUALITY_FILTERS EXCEPT !.minVolume = 0, !.minMarketCap = 600000000]}

\* const result = applyQualityFilters(stocks, filters); `stocks` in the
\* record is the caller's array after the call (Array.prototype.filter
\* builds a new array and does not write to the one it reads).
ApplyFilters(stocks, filters) ==
    /\ last = NoCall
    /\ last' = [op |-> "applyQualityFilters", input |-> stocks, filters |-> filters,
                stocks |-> stocks, ret |-> applyQualityFilters(stocks, filters)]
    /\ UNCHANGED notKeys

NextFilter ==
    /\ last = NoCall
    /\ \E stocks \in FilterLists, filters \in FilterConfigs : ApplyFilters(stocks, filters)

SpecFilter == InitShared /\ [][NextFilter]_vars

\* The liquidity figure the volume threshold is compared with.
Liquidity(stock) ==
    IF stock.avgVolume # <<>> THEN stock.avgVolume[1]
    ELSE IF stock.volume # <<>> THEN stock.volume[1]
    ELSE 0

\* The four single-predicate filters, numbered 1..4.
Passes(n, stock, filters) ==
    CASE n = 1 -> stock.marketCap >= filters.minMarketCap
      [] n = 2 -> stock.price >= filters.minPrice
      [] n = 3 -> Liquidity(stock) >= filters.minVolume
      [] n = 4 -> stock.exchange \in filters.allowedExchanges

SingleFilter(n, stocks, filters) ==
    LET Test(stock) == Passes(n, stock, filters)
    IN  SelectSeq(stocks, Test)

RECURSIVE FilterInOrder(_, _, _)
\* the single filters applied one after the other, in the order given
FilterInOrder(order, stocks, filters) ==
    IF order = <<>>
    THEN stocks
    ELSE FilterInOrder(Tail(order), SingleFilter(Head(order), stocks, filters), filters)

FilterOrders == {o \in [1..4 -> 1..4] : \A n \in 1..4 : \E i \in 1..4 : o[i] = n}

\* the elements of the list that each single filter keeps, in input order
FilterIntersection(stocks, filters) ==
    LET InAll(stock) ==
            \A n \in 1..4 :
                \E i \in 1..Len(SingleFilter(n, stocks, filters)) :
                    SingleFilter(n, stocks, filters)[i] = stock
    IN  SelectSeq(stocks, InAll)

RECURSIVE IsSubsequence(_, _)
IsSubsequence(a, b) ==
    IF a = <<>> THEN TRUE
    ELSE IF b = <<>> THEN FALSE
    ELSE IF Head(a) = Head(b) THEN IsSubsequence(Tail(a), Tail(b))
    ELSE IsSubsequence(a, Tail(b))

\* C22: applyQualityFilters returns exactly the stocks that meet all four
\* thresholds at once: the result is the intersection of the four
\* single-predicate filters, is what applying them one after the other in
\* any order gives, keeps the input order, and the input is as it was.
C22_PureIntersection ==
    last.op = "applyQualityFilters" =>
        /\ last.ret = FilterIntersection(last.input, last.filters)
        /\ \A order \in FilterOrders :
                last.ret = FilterInOrder(order, last.input, last.filters)
        /\ \A i \in 1..Len(last.ret) : \A n \in 1..4 : Passes(n, last.ret[i], last.filters)
        /\ IsSubsequence(last.ret, last.input)
        /\ last.stocks = last.input

\* Two stocks in, the second kept and the first dropped only for its
\* liquidity: avgVolume 0 hides a volume above the threshold.
C22_Witness ==
    /\ last.op = "applyQualityFilters"
    /\ last.filters = DEFAULT_QUALITY_FILTERS
    /\ Len(last.input) = 2
    /\ last.ret = <<last.input[2]>>
    /\ last.input[1].avgVolume = <<0>> /\ last.input[1].volume = <<500000>>
    /\ \A n \in {1, 2, 4} : Passes(n, last.input[1], last.filters)
    /\ last.input[2].price = 5 /\ last.input[2].marketCap = 500000000

----------------------------------------------------------------------------
(* The search path of the gateway and the quality criteria.                 *)

\* The stock meets the four default thresholds.
MeetsDefaults(stock) == \A n \in 1..4 : Passes(n, stock, DEFAULT_QUALITY_FILTERS)

\* C23: every stock searchStocks returns, from FMP or from Finnhub, fetched
\* or read from the cache, has market cap >= 500,000,000, price >= 5,
\* average volume >= 500,000 and an exchange among NYSE, NASDAQ and AMEX.
C23_SearchFiltered ==
    \A h \in Handlers :
        (req[h].pc = "done" /\ req[h].op = "search" /\ req[h].res.status = "ok") =>
            \A i \in 1..Len(req[h].res.value.items) :
                MeetsDefaults(req[h].res.value.items[i])

\* The same for the searches FMP answers.
C23_FmpSearchFiltered ==
    \A h \in Handlers :
        (/\ req[h].pc = "done" /\ req[h].op = "search" /\ req[h].res.status = "ok"
         /\ req[h].provider = "fmp") =>
            \A i \in 1..Len(req[h].res.value.items) :
                MeetsDefaults(req[h].res.value.items[i])

----------------------------------------------------------------------------
(* SpecLedger: the cost ledger under calls of rollover and recordCost and   *)
(* the months going by.                                                     *)

MaxMonths == 3
MaxCost == 2

notLedger == <<cache, fmpRateLimiter, rateLimiter, env, activeProvider, req, last, lastSet,
               window, issued, started, analyze, macro, reasoning, watch>>

LedgerRollover ==
    /\ apiCosts' = rollover(apiCosts, now)
    /\ rolled' = rolled \cup {MonthOf(now)}
    /\ UNCHANGED <<now, notLedger>>

LedgerRecordCost(amount, kind) ==
    /\ rollover(apiCosts, now).claudeCosts + amount <= MaxCost
    /\ rollover(apiCosts, now).fmpCalls < MaxCost
    /\ apiCosts' = recordCost(apiCosts, amount, kind, now)
    /\ rolled' = rolled \cup {MonthOf(now)}
    /\ UNCHANGED <<now, notLedger>>

\* The clock advances by a month.
LedgerTickMonth ==
    /\ MonthOf(now) < MaxMonths
    /\ now' = now + MONTH_MS
    /\ UNCHANGED <<apiCosts, rolled, notLedger>>

NextLedger ==
    \/ LedgerRollover
    \/ \E amount \in 1..MaxCost, kind \in {"claude", "fmp"} : LedgerRecordCost(amount, kind)
    \/ LedgerTickMonth

SpecLedger == InitShared /\ [][NextLedger]_vars

C24_Closed(costs) == {costs.history[i].month : i \in 1..Len(costs.history)}

C24_Step ==
    /\ \* one current period, which is not among the closed ones; no closed
       \* month twice
       /\ apiCosts'.currentMonth \notin C24_Closed(apiCosts')
       /\ \A i, j \in 1..Len(apiCosts'.history) :
            i < j => apiCosts'.history[i].month < apiCosts'.history[j].month
    /\ \* lazily: nothing happens to the ledger when only the clock moves
       now' # now => apiCosts' = apiCosts
    /\ \* a rollover inside the period changes nothing
       (now' = now /\ apiCosts.currentMonth = MonthOf(now)) =>
            /\ apiCosts'.history = apiCosts.history
            /\ apiCosts'.currentMonth = apiCosts.currentMonth
            /\ apiCosts'.claudeCosts >= apiCosts.claudeCosts
            /\ apiCosts'.fmpCalls >= apiCosts.fmpCalls
            /\ (apiCosts'.claudeCosts = apiCosts.claudeCosts
                    /\ apiCosts'.fmpCalls = apiCosts.fmpCalls) => apiCosts' = apiCosts
    /\ \* the first access in another month closes the period with its total
       \* and opens the new one from zero
       (now' = now /\ apiCosts.currentMonth # MonthOf(now)) =>
            LET opened == [currentMonth |-> MonthOf(now), claudeCosts |-> 0,
                           fmpCalls |-> 0, analyses |-> 0, budget |-> apiCosts.budget,
                           history |-> Append(apiCosts.history,
                                [month |-> apiCosts.currentMonth,
                                 total |-> apiCosts.claudeCosts])]
            IN  \/ apiCosts' = opened
                \/ apiCosts' = [opened EXCEPT !.fmpCalls = 1]
                \/ \E amount \in 1..MaxCost :
                        apiCosts' = [opened EXCEPT !.claudeCosts = amount, !.analyses = 1]
    /\ \* rolled over in each of the months so far: one closed entry per
       \* month gone by, none skipped
       (\A m \in 0..MonthOf(now) : m \in rolled') =>
            /\ Len(apiCosts'.history) = MonthOf(now)
            /\ \A i \in 1..MonthOf(now) : apiCosts'.history[i].month = i - 1

\* C24: the cost ledger has exactly one current period at all times and
\* rolls over lazily, when the wall-clock month differs from the stored one:
\* a rollover inside the period changes nothing, one rollover per month
\* boundary over M months leaves exactly M closed entries with no month
\* twice and none skipped, and the new current period starts from zero cost
\* and zero calls.
C24_LedgerRollover == [][C24_Step]_vars

\* Three months gone by with a rollover in each: three closed entries, one
\* of them with a cost, and a current period at zero.
C24_Witness ==
    /\ MonthOf(now) = 3
    /\ rolled = 0..3
    /\ Len(apiCosts.history) = 3
    /\ apiCosts.history[2].total > 0
    /\ apiCosts.claudeCosts = 0 /\ apiCosts.analyses = 0

----------------------------------------------------------------------------
(* Overwriting and removing entries of the MemoryCache (SpecCache).         *)

\* Every key but k is in the map as before, with the entry it had.
OthersKept(k) ==
    \A j \in CacheKeys \ {k} :
        /\ (j \in DOMAIN cache') = (j \in DOMAIN cache)
        /\ j \in DOMAIN cache => cache'[j] = cache[j]

C25_Step ==
    \A k \in CacheKeys :
        /\ (last'.op = "set" /\ last'.key = k) =>
                /\ k \in DOMAIN cache'
                /\ cache'[k].data = last'.ret
                /\ cache'[k].expiresAt = now + lastSet'[k].ttl
                /\ OthersKept(k)
        /\ (last'.op = "get" /\ last'.key = k) =>
                /\ (k \in DOMAIN cache /\ now <= cache[k].expiresAt) =>
                        last'.ret = cache[k].data
                /\ k \notin DOMAIN cache => last'.ret = Null
        /\ (last'.op = "delete" /\ last'.key = k) =>
                /\ k \notin DOMAIN cache'
                /\ OthersKept(k)
        /\ last'.op = "clear" => k \notin DOMAIN cache'
        /\ (k \notin DOMAIN cache /\ k \in DOMAIN cache') =>
                (last'.op = "set" /\ last'.key = k)

\* C25: set overwrites unconditionally, the last write wins: after
\* set(k, v1, t1) and then set(k, v2, t2) the entry of k holds v2 and
\* expires t2 after the second set, also when that is earlier than the
\* expiry it had, and get(k) returns v2 until then; no other key's value or
\* expiry changes; after delete(k) or clear() the key is out of the map, so
\* that get(k) returns null, and only a set brings it back.
C25_LastWriteWins == [][C25_Step]_vars

\* A set has just replaced a live entry that held another value and was to
\* expire later than the new one does.
C25_Witness ==
    /\ last.op = "set"
    /\ last.over # <<>>
    /\ last.over[1].data # last.ret
    /\ last.over[1].expiresAt > cache[last.key].expiresAt
    /\ last.over[1].expiresAt >= now

----------------------------------------------------------------------------
(* SpecDrift: POST /api/analyze for one ticker whose price rises by 4% every *)
(* hour, requested at any of the hours.                                     *)

DriftHours == 6
MaxDriftRequests == 3

HOUR_MS == 60 * MINUTE_MS

HourOf(t) == t \div HOUR_MS

RECURSIVE DriftPrice(_)
\* the price in cents after k hours: 100.00, 104.00, 108.16, 112.49, ...
DriftPrice(k) == IF k = 0 THEN 10000 ELSE (DriftPrice(k - 1) * 104 + 50) \div 100

\* what Finnhub answers at instant t
DriftBodies(op, ep, t) ==
    CASE op = "quote" -> {Body("json", [kind |-> "object", c |-> DriftPrice(HourOf(t))])}
      [] ep = "quote" -> {Body("json", [kind |-> "object", c |-> DriftPrice(HourOf(t))])}
      [] OTHER -> {Body("json", [kind |-> "object", name |-> "Apple Inc", ticker |-> "AAPL",
                                 finnhubIndustry |-> "Technology", marketCapitalization |-> 2000])}

InitDrift == InitAnalyze /\ env = AllKeys \cup {"ANTHROPIC_API_KEY"} /\ rateLimiter = <<>>

DriftPost ==
    /\ analyze[1].pc = "idle"
    /\ started < MaxDriftRequests
    /\ started' = started + 1
    /\ \E x \in {POST_analyze(AWorld(1), "AAPL", FALSE, now)} : AApply(1, x)
    /\ UNCHANGED <<now, macro, notAnalyze>>

\* The clock advances by an hour, and the price with it.
DriftTickHour ==
    /\ HourOf(now) < DriftHours
    /\ now' = now + HOUR_MS
    /\ UNCHANGED notClock

NextDrift ==
    \/ DriftPost
    \/ \E i \in 1..2 : AnalyzeResponse(1, i, 200)
    \/ \E i \in 1..2 :
        /\ req[1].f[i].st = "body"
        /\ \E body \in DriftBodies(req[1].op, req[1].f[i].ep, now) : AnalyzeReadBody(1, i, body)
    \/ \E outcome \in {"ok", "error"} : ReasoningDone(1, outcome)
    \/ AnalyzeFinish(1)
    \/ DriftTickHour

SpecDrift == InitDrift /\ [][NextDrift]_vars

\* C26 as stated: with the price rising by 4% every hour for six hours, a
\* cached analysis is never invalidated before its TTL expires: every
\* request that finds the record inside its TTL is served from the cache.
C26_NeverInvalidated ==
    [][(QuoteObtained(1) /\ LiveRecord(1)) => ServedFromCache(1)]_vars

C26_Step ==
    LET a == analyze'[1]
        record == cache[analysisKey(a.ticker)]
        served == ServedFromCache(1) /\ a.res.analysis = record.data.analysis
                    /\ reasoning' = reasoning
    IN  (QuoteObtained(1) /\ LiveRecord(1)) =>
            /\ a.quote.price = DriftPrice(HourOf(now))
            /\ \E g \in 0..HourOf(now) :
                /\ record.data.priceAtAnalysis = DriftPrice(g)
                /\ IF HourOf(now) - g <= 1
                   THEN served
                   ELSE /\ ~ServedFromCache(1)
                        /\ Regenerating(1)
                        /\ analysisKey(a.ticker) \notin DOMAIN cache'

\* C26, amended: the price of a request is compared with the price stored
\* with the record, which a cache hit does not update, so the drift adds up
\* against that price: a request in the hour the record was generated at or
\* in the next one (4% above) is served from the cache, and a request two or
\* more hours after (8.16% above or more) finds the record invalid, evicts
\* it and goes on to a new reasoning call.
C26_CumulativeDrift == [][C26_Step]_vars

\* A record generated in the first hour was served in the second and
\* replaced in the third, at 108.16.
C26_Witness ==
    /\ HourOf(now) = 2
    /\ analyze[1].pc = "done" /\ ~analyze[1].res.cached /\ analyze[1].res.status = 200
    /\ started = 3
    /\ Len(reasoning) = 2
    /\ reasoning[1].price = 10000 /\ reasoning[2].price = 10816
    /\ cache[analysisKey("AAPL")].data.priceAtAnalysis = 10816

----------------------------------------------------------------------------
(* Concurrent requests for one cold key (Spec: two handlers).               *)

\* Handler h is inside an operation: called, and not yet returned or thrown.
Pending(h) == req[h].pc \notin {"idle", "done"}

C27_Step ==
    /\ \A h \in Handlers :
        LET r == req'[h]
            k == keyOf(r)
        IN  /\ \* a miss goes upstream, whatever the other handler is doing
               (/\ Called(h) /\ ~Live(cache, k, now) /\ ~Exhausted(r.provider)
                /\ env = AllKeys
                /\ ~(r.op = "search" /\ trim(r.arg) = "")) => r.sent >= 1
            /\ \* the call of a quote that came back is recorded once and its
               \* result is what the cache holds, with the TTL of this set
               (Completes(h) /\ r.op = "quote" /\ r.res.status = "ok" /\ r.sent > 0) =>
                    /\ r.sent = 1 /\ r.recorded = 1
                    /\ k \in DOMAIN cache'
                    /\ cache'[k] = CacheEntry(r.res.value, now + ttlOf(r))
            /\ \* an operation under way is never dropped: it ends by returning
               \* or throwing, whoever is still waiting for it
               Pending(h) => r.pc # "idle"
    /\ \* an entry is written only by the operation that completes in the
       \* step, with its own result; it goes only when a call finds it expired
       \A k \in DOMAIN cache \cup DOMAIN cache' :
            \/ k \in DOMAIN cache /\ k \in DOMAIN cache' /\ cache'[k] = cache[k]
            \/ \E h \in Handlers :
                /\ Completes(h) /\ keyOf(req'[h]) = k /\ req'[h].res.status = "ok"
                /\ k \in DOMAIN cache'
                /\ cache'[k] = CacheEntry(req'[h].res.value, now + ttlOf(req'[h]))
            \/ \E h \in Handlers :
                /\ Called(h) /\ keyOf(req'[h]) = k
                /\ k \in DOMAIN cache /\ now > cache[k].expiresAt
                /\ k \notin DOMAIN cache'

\* C27: two concurrent requests for one cold key both miss and both call
\* upstream, each call recorded once; no write is lost: each request that
\* completes stores its own result under the key with its own TTL, so that
\* after both the cache holds what the one that set last wrote; a request
\* under way is not dropped when its caller leaves, and stores its result
\* when its upstream call completes.
C27_ConcurrentColdKey == [][C27_Step]_vars

\* Both handlers missed on the quote of one ticker, both went upstream and
\* came back with different quotes; the cache holds one of them.
C27_Witness ==
    /\ \A h \in Handlers :
        /\ req[h].pc = "done" /\ req[h].op = "quote" /\ req[h].res.status = "ok"
        /\ req[h].sent = 1 /\ req[h].recorded = 1
    /\ keyOf(req[1]) = keyOf(req[2])
    /\ req[1].res.value # req[2].res.value
    /\ keyOf(req[1]) \in DOMAIN cache
    /\ cache[keyOf(req[1])].data = req[1].res.value

----------------------------------------------------------------------------
(* Failing upstream calls and the cache (Spec).                             *)

\* A fetch of handler h fails in this step: it settles with a status that
\* is not 2xx or rejects, or its body turns out to be an error message or
\* no JSON, and the operation goes on from there.
FetchFails(h) ==
    /\ req'[h] # req[h]
    /\ Pending(h)
    /\ \E i \in 1..2 :
        \/ /\ req[h].f[i].st = "inflight"
           /\ \E status \in Statuses :
                LET w == IF req[h].provider = "fmp"
                         THEN fmpFetch_response(World(h), i, status, now)
                         ELSE finnhubFetch_response(World(h), i, status, now)
                IN  /\ ~ok(status)
                    /\ req'[h] = Cont(w, now).r
        \/ /\ req[h].f[i].st = "errbody"
           /\ \E errorMessage \in ErrorMessages :
                req'[h] = Cont(finnhubFetch_errbody(World(h), i, errorMessage), now).r
        \/ /\ req[h].f[i].st = "body"
           /\ \E body \in Bodies(req[h].provider, req[h].f[i].ep) :
                LET w == IF req[h].provider = "fmp"
                         THEN fmpFetch_body(World(h), i, body)
                         ELSE finnhubFetch_body(World(h), i, body)
                IN  /\ w.r.f[i].st = "failed"
                    /\ req'[h] = Cont(w, now).r

\* Nothing is written to the cache in this step: every entry there is
\* after it was there before, unchanged.
NoWrite == \A k \in DOMAIN cache' : k \in DOMAIN cache /\ cache'[k] = cache[k]

C28_Strict(r) ==
    \/ r.op \in {"quote", "history"}
    \/ r.op = "fundamentals" /\ r.provider = "fmp"
    \/ r.op = "search" /\ r.provider = "fmp" /\ r.f[1].ep # "profile" /\ r.f[2].ep # "profile"

C28_Step ==
    /\ \A h \in Handlers :
        LET r == req'[h]
        IN  /\ \* an operation that raises has written nothing
               (Completes(h) /\ r.res.status = "error") => cache' = cache
            /\ \* getQuote, getHistoricalPrices and FMP getFundamentals raise
               \* when a fetch of theirs fails, FMP searchStocks when its
               \* search or quote fetch does
               (/\ FetchFails(h) /\ C28_Strict(req[h])
                /\ r.f[1].st # "errbody" /\ r.f[2].st # "errbody") =>
                    /\ r.pc = "done"
                    /\ r.res.status = "error"
            /\ \* no quote found (c = 0): Finnhub getQuote raises
               (/\ Completes(h) /\ r.op = "quote" /\ r.provider = "finnhub"
                /\ r.res.status = "ok") =>
                    r.res.value.price # 0
            /\ \* a later call that finds no live entry goes upstream again
               (/\ Called(h) /\ ~Live(cache, keyOf(r), now) /\ ~Exhausted(r.provider)
                /\ env = AllKeys
                /\ ~(r.op = "search" /\ trim(r.arg) = "")) => r.sent >= 1
    /\ \* only an operation that returns writes
       (\A h \in Handlers : ~(Completes(h) /\ req'[h].res.status = "ok")) => NoWrite

----------------------------------------------------------------------------
(* A failed reasoning call and the analysis cache (SpecAnalyze).            *)

\* The reasoning call of handler h fails in this step.
ReasoningFails(h) ==
    /\ analyze[h].pc = "reasoning"
    /\ analyze'[h].pc = "done"
    /\ analyze'[h].res.status # 200

\* The entry under key k is after the step what it was before.
SameEntry(k) ==
    IF k \in DOMAIN cache
    THEN k \in DOMAIN cache' /\ cache'[k] = cache[k]
    ELSE k \notin DOMAIN cache'

C29_Step ==
    LET a == analyze'[1]
        key == analysisKey(a.ticker)
    IN  /\ \* a failed reasoning call writes nothing and answers with an error
           ReasoningFails(1) =>
                /\ cache' = cache
                /\ a.res.analysis = Null /\ ~a.res.cached
        /\ \* the price-drift path: the check evicts the record ...
           (/\ QuoteObtained(1) /\ ~a.forceRefresh /\ LiveRecord(1)
            /\ ~C14_Within5(cache[key].data.priceAtAnalysis, a.quote.price)) =>
                key \notin DOMAIN cache'
        /\ \* ... and the entry is absent when the reasoning call fails
           (ReasoningFails(1) /\ ~a.forceRefresh) => key \notin DOMAIN cache'
        /\ \* the forceRefresh path: the record is left alone from the
           \* request to the failure of its reasoning call
           (/\ a.forceRefresh /\ a.pc # "idle" /\ analyze[1].pc # "done"
            /\ ~(a.pc = "done" /\ a.res.status = 200)) => SameEntry(key)
        /\ \* a later request without forceRefresh, within the TTL and
           \* within 5% of the stored price, is served the record
           (/\ QuoteObtained(1) /\ ~a.forceRefresh
            /\ key \in DOMAIN cache /\ now < cache[key].expiresAt
            /\ C14_Within5(cache[key].data.priceAtAnalysis, a.quote.price)) =>
                /\ a.pc = "done" /\ a.res.status = 200 /\ a.res.cached
                /\ a.res.analysis = cache[key].data.analysis
                /\ reasoning' = reasoning

\* C29: a failed reasoning call never writes an analysis record.  After a
\* price-drift invalidation the entry is absent; after a forceRefresh
\* request whose reasoning call fails the earlier record is still in the
\* cache, and a later request without forceRefresh that is within the TTL
\* and within 5% of the stored price is served it with cached: true.
C29_FailedReasoning == [][C29_Step]_vars

\* The first reasoning call succeeded and the second failed while the
\* record of the first was cached (a forceRefresh request); the third
\* request, not forced, has been served the record of the first.
C29_Witness ==
    /\ Len(reasoning) = 2
    /\ reasoning[1].macro # 0 /\ reasoning[2].macro = 0
    /\ analyze[1].pc = "done" /\ ~analyze[1].forceRefresh
    /\ analyze[1].res.cached /\ analyze[1].res.analysis.call = 1
    /\ analysisKey("AAPL") \in DOMAIN cache
    /\ cache[analysisKey("AAPL")].data.analysis.call = 1

----------------------------------------------------------------------------
(* POST /api/watchlist/prices: the handler on top of getBatchQuotes.        *)

\* the characters of a string as one string
RECURSIVE Text(_)
Text(str) == IF str = <<>> THEN "" ELSE Head(str) \o Text(Tail(str))

\* tickers.slice(0, 50).map(t => t.toUpperCase()), after the in-place sort()
\* of the key computation
limitedTickers(tickers) ==
    Array_sort([i \in 1..Len(Array_slice(tickers, WATCHLIST_LIMIT)) |->
                    String_toUpperCase(tickers[i])])

WWorld == [w |-> World(1), a |-> watch]

WApply(x) ==
    /\ Apply(1, x.w)
    /\ watch' = x.a

\* return NextResponse.json({prices, cached, ...}, {status})
WatchRespond(x, status, prices, cached) ==
    [x EXCEPT !.a.pc = "done",
              !.a.res = [status |-> status, prices |-> prices, cached |-> cached]]

\* for (const quote of quotes) prices[quote.ticker] = {price: quote.price, ...}
PriceMap(quotes) ==
    [kind |-> "object",
     map |-> [ticker \in {quotes[i].ticker : i \in 1..Len(quotes)} |->
                LET i == CHOOSE i \in 1..Len(quotes) :
                            /\ quotes[i].ticker = ticker
                            /\ \A j \in (i + 1)..Len(quotes) : quotes[j].ticker # ticker
                IN  [price |-> quotes[i].price]]]

\* Variant that is wrong on purpose: only a complete price map is cached.
AfterBatch_complete(x, t) ==
    IF x.w.r.res.status = "error"
    THEN WatchRespond(x, 500, Null, FALSE)
    ELSE LET prices == PriceMap(x.w.r.res.value.items)
             complete == \A i \in 1..Len(x.w.r.arg) : x.w.r.arg[i] \in DOMAIN prices.map
         IN  WatchRespond(
                IF complete
                THEN [x EXCEPT !.w.cache = MemoryCache_set(@, x.a.key, prices, CACHE_TTL.QUOTE, t)]
                ELSE x,
                200, prices, FALSE)

\* getBatchQuotes has settled: the price map is built from the quotes it
\* returned, cached for CACHE_TTL.QUOTE and returned; the catch answers 500.
AfterBatch(x, t) ==
    IF x.w.r.res.status = "error"
    THEN WatchRespond(x, 500, Null, FALSE)
    ELSE LET prices == PriceMap(x.w.r.res.value.items)
         IN  WatchRespond(
                [x EXCEPT !.w.cache = MemoryCache_set(@, x.a.key, prices, CACHE_TTL.QUOTE, t)],
                200, prices, FALSE)

\* POST: from the parsed body to the await of getBatchQuotes or the return
POST_watchlist(x, tickers, t) ==
    LET sorted == limitedTickers(tickers)
        key == Text(<<"watchlist:prices:">> \o Array_join(sorted))
        x0 == [x EXCEPT !.a = [WatchIdle EXCEPT !.pc = "batch", !.tickers = tickers,
                                                !.key = key]]
        g == MemoryCache_get(x.w.cache, key, t)
        x1 == [x0 EXCEPT !.w.cache = g.cache]
    IN  IF Len(tickers) = 0
        THEN WatchRespond(x0, 400, Null, FALSE)
        ELSE IF Truthy(g.ret)
        THEN WatchRespond(x1, 200, g.ret, TRUE)
        ELSE CHOOSE y \in {IF x2.w.r.pc = "done" THEN AfterBatch(x2, t) ELSE x2 :
                x2 \in {[x1 EXCEPT !.w =
                    StartBatch([x1.w EXCEPT !.r =
                        NewRequest("finnhub", "batchQuotes",
                                   [i \in 1..Len(sorted) |-> Text(sorted[i])], "")], t)]}} : TRUE

\* The handler goes on when getBatchQuotes has settled.
WatchCont(x, t) ==
    IF x.a.pc = "batch" /\ x.w.r.pc = "done" THEN AfterBatch(x, t) ELSE x

----------------------------------------------------------------------------
(* SpecWatch: one handler of POST /api/watchlist/prices, Finnhub answering  *)
(* or refusing, the per-minute limiter unused, one call short of its quota  *)
(* or exhausted, the clock advancing.                                       *)

MaxWatch == 2
WatchMinutes == 3

\* lists of at most MaxListLen tickers, and lists of one ticker more than
\* the route keeps
WatchRequests ==
    Strings({<<"A">>, <<"a">>, <<"B">>}, MaxListLen)
        \cup {[i \in 1..(WATCHLIST_LIMIT + 1) |-> IF i > WATCHLIST_LIMIT THEN <<"B">> ELSE <<"A">>]}

WatchStatuses == {200, 429}
WatchBodies == {Body("json", [kind |-> "object", c |-> 100])}

InitWatch ==
    /\ InitAnalyze
    /\ env = AllKeys \cup {"ANTHROPIC_API_KEY"}
    /\ Len(rateLimiter) = 0

notWatch == <<env, activeProvider, last, lastSet, window, analyze, macro, reasoning,
              apiCosts, rolled>>

\* Other traffic of the minute has left the limiter one call short of its
\* quota, or exhausted.
WatchOtherTraffic(k) ==
    /\ started = 0
    /\ rateLimiter = <<>>
    /\ rateLimiter' = [i \in 1..(maxCallsPerMinute - k) |-> now]
    /\ issued' = [issued EXCEPT !.finnhub = [i \in 1..(maxCallsPerMinute - k) |-> now]]
    /\ UNCHANGED <<now, cache, fmpRateLimiter, req, started, watch, notWatch>>

WatchPost(tickers) ==
    /\ watch.pc = "idle"
    /\ started < MaxWatch
    /\ started' = started + 1
    /\ \E x \in {POST_watchlist(WWorld, tickers, now)} : WApply(x)
    /\ UNCHANGED <<now, notWatch>>

WatchResponse(i, status) ==
    /\ watch.pc = "batch"
    /\ req[1].f[i].st = "inflight"
    /\ \E x \in {[WWorld EXCEPT !.w =
                        Cont(finnhubFetch_response(World(1), i, status, now), now)]} :
       \E y \in {WatchCont(x, now)} : WApply(y)
    /\ UNCHANGED <<now, started, notWatch>>

WatchErrorBody(i, errorMessage) ==
    /\ watch.pc = "batch"
    /\ req[1].f[i].st = "errbody"
    /\ \E x \in {[WWorld EXCEPT !.w =
                        Cont(finnhubFetch_errbody(World(1), i, errorMessage), now)]} :
       \E y \in {WatchCont(x, now)} : WApply(y)
    /\ UNCHANGED <<now, started, notWatch>>

WatchReadBody(i, body) ==
    /\ watch.pc = "batch"
    /\ req[1].f[i].st = "body"
    /\ \E x \in {[WWorld EXCEPT !.w = Cont(finnhubFetch_body(World(1), i, body), now)]} :
       \E y \in {WatchCont(x, now)} : WApply(y)
    /\ UNCHANGED <<now, started, notWatch>>

\* The response has been sent; the handler is free for the next request.
WatchFinish ==
    /\ watch.pc = "done"
    /\ watch' = WatchIdle
    /\ req' = [req EXCEPT ![1] = Idle]
    /\ UNCHANGED <<now, cache, fmpRateLimiter, rateLimiter, issued, started, notWatch>>

\* The clock advances by a minute, between two requests (a batch is over
\* well within the minute it began in).
WatchTick ==
    /\ watch.pc # "batch"
    /\ now + MINUTE_MS <= WatchMinutes * MINUTE_MS
    /\ now' = now + MINUTE_MS
    /\ UNCHANGED <<cache, fmpRateLimiter, rateLimiter, issued, req, started, watch, notWatch>>

NextWatch ==
    \/ \E k \in {0, 1} : WatchOtherTraffic(k)
    \/ \E tickers \in WatchRequests : WatchPost(tickers)
    \/ \E i \in 1..2, status \in WatchStatuses : WatchResponse(i, status)
    \/ \E i \in 1..2, errorMessage \in ErrorMessages : WatchErrorBody(i, errorMessage)
    \/ \E i \in 1..2, body \in WatchBodies : WatchReadBody(i, body)
    \/ WatchFinish
    \/ WatchTick

SpecWatch == InitWatch /\ [][NextWatch]_vars

----------------------------------------------------------------------------
(* Claims about POST /api/watchlist/prices.                                 *)

\* the first 50 tickers of the request, upper-cased
FirstFifty(tickers) ==
    {Text(String_toUpperCase(tickers[i])) :
        i \in 1..(IF Len(tickers) <= 50 THEN Len(tickers) ELSE 50)}

\* The handler answers in this step with what getBatchQuotes returned.
BatchAnswered == watch.pc # "done" /\ watch'.pc = "done" /\ ~watch'.res.cached
                    /\ watch'.res.status = 200

\* A request arrives in this step and finds the entry of its list unexpired.
FoundCached ==
    /\ watch.pc = "idle" /\ watch'.pc # "idle"
    /\ watch'.key \in DOMAIN cache
    /\ now <= cache[watch'.key].expiresAt

C30_Step ==
    LET a == watch'
    IN  /\ \* whatever the batch returned is stored for 2 minutes under the
           \* key of the list; it holds the tickers that were quoted, which
           \* may be some of the list or none
           BatchAnswered =>
                /\ a.key \in DOMAIN cache'
                /\ cache'[a.key] = CacheEntry(a.res.prices, now + 2 * MINUTE_MS)
                /\ DOMAIN a.res.prices.map =
                        {req'[1].arg[i] : i \in {j \in 1..Len(req'[1].log) :
                                                  req'[1].log[j] \in {"hit", "fetched"}}}
        /\ \* a request for the list within the 2 minutes gets the stored
           \* map, cached: true, and nothing goes upstream
           FoundCached =>
                /\ a.pc = "done" /\ a.res.status = 200 /\ a.res.cached
                /\ a.res.prices = cache[a.key].data
                /\ issued' = issued /\ rateLimiter' = rateLimiter
                /\ req' = req /\ cache' = cache
        /\ \* the map only holds tickers of the first 50 requested
           (a.pc = "done" /\ a.res.status = 200) =>
                DOMAIN a.res.prices.map \subseteq FirstFifty(a.tickers)

\* C30: the watchlist-prices handler caches whatever the Finnhub batch
\* returned, complete or not: the partial or empty price map is stored for
\* 2 minutes under the key of the full ticker list, every request for that
\* list within the 2 minutes returns it with cached: true and makes no
\* upstream call, and the map only ever contains (upper-cased) tickers of
\* the first 50 requested.
C30_PartialCached == [][C30_Step]_vars

\* With the limiter exhausted a list of two tickers was answered with an
\* empty map; a minute later, the limiter free again, the same list is
\* answered with the empty map from the cache.
C30_Witness ==
    /\ watch.pc = "done" /\ watch.res.cached
    /\ Len(watch.tickers) = 2
    /\ watch.res.prices.map = <<>>
    /\ now = MINUTE_MS
    /\ started = 2

====
